---- MODULE Spec2Model ----
(***************************************************************************)
(* SMPP/HLR gateway (smpp-hlr-gateway-dlv).                                *)
(*                                                                         *)
(* The model covers the SMPP session reader (src/smpp/server.py), the      *)
(* SubmitSM pipeline and its DLR task (src/smpp/handler.py), the HLR       *)
(* resolver (src/hlr/client.py), the Redis cache (src/hlr/cache.py) and    *)
(* the detached store append (src/database/client.py).                     *)
(*                                                                         *)
(* Each session has one reader coroutine that processes PDUs one after     *)
(* the other; an action is the code between two suspension points at       *)
(* which shared state is read or written (Redis GET/SETEX, the semaphore,  *)
(* the HLR HTTP call, the DLR sleep).                                      *)
(***************************************************************************)
EXTENDS Integers, Sequences, FiniteSets, TLC

(***************************************************************************)
(* Bounds of the model.                                                    *)
(***************************************************************************)
MaxPdus == 3            \* PDUs (and closes) of all peers together

Sessions == {"s1", "s2"}
MSISDNs == {"m1"}
SourceAddrs == {"1234"}

(***************************************************************************)
(* Program constants.  A command_id is kept as its low 31 bits; bit        *)
(* 0x80000000 (a response) is the field resp of a written PDU.             *)
(***************************************************************************)
SMPP_CMD_BIND_TRANSCEIVER == 9
SMPP_CMD_UNBIND == 6
SMPP_CMD_SUBMIT_SM == 4
SMPP_CMD_ENQUIRE_LINK == 21
SMPP_CMD_DELIVER_SM == 5
CMD_EOF == 0            \* the peer closed the connection (readexactly fails)

ESME_ROK == 0
SMPP_ESME_RINVBNDSTS == 4
ESME_RSYSERR == 8
ESME_RINVDSTADR == 11
SMPP_ESME_RINVPASWD == 14

ESM_CLASS_DLR == 4
SemaphoreCapacity == 100
DefaultTtl == 86400

smpp_system_id == "testuser"
smpp_password == "testpass"
hlr_timeout_policy == "reject"

NoId == <<>>            \* message_id None / empty body
AbsentInt == -1         \* an integer field missing from a record
Absent == "absent"      \* a string field missing from a record
NoData == <<>>          \* Redis holds no value for the key
NoArg == "none"         \* no function is called on its own
NoRet == "none"         \* the call has not returned

VARIABLES
    ttl,              \* settings.hlr_cache_ttl_seconds
    cache,            \* Redis: MSISDN -> serialized record, NoData if none
    permits,          \* free permits of HLRClient.semaphore
    httpCount,        \* MSISDN -> HTTP GETs issued to the HLR so far
    saveTasks,        \* detached save_hlr_lookup tasks not run yet
    store,            \* rows of hlr_lookups
    inbox,            \* session -> PDUs sent by the peer, not read yet
    sent,             \* session -> number of PDUs the peer has sent
    peerOpen,         \* session -> the peer has not closed its side
    closed,           \* session -> the reader loop has exited
    authenticated,    \* SMPPSession.authenticated
    sequence_number,  \* SMPPSession.sequence_number
    out,              \* session -> PDUs written to the StreamWriter
    pc,               \* session -> where the reader coroutine is suspended
    cur,              \* session -> the SubmitSM being handled
    dlrTasks,         \* _send_DELIVRD_dlr tasks created so far
    ev,               \* history: the SubmitSM whose handler finished in the
                      \* last step, NoEv after any other step
    arg,              \* the argument of a function called on its own
    ret,              \* what that call returned, NoRet before it returns
    returned,         \* that call has returned
    app,              \* Application: where run is, what it has brought up
    delivrd_total     \* the delivrd_total counter, summed over its labels

vars == <<ttl, cache, permits, httpCount, saveTasks, store, inbox,
          sent, peerOpen, closed, authenticated, sequence_number, out, pc,
          cur, dlrTasks, ev, arg, ret, returned, app, delivrd_total>>

gatewayVars == <<ttl, cache, permits, httpCount, saveTasks, store, inbox,
                 sent, peerOpen, closed, authenticated, sequence_number,
                 out, pc, cur, dlrTasks, ev, app, delivrd_total>>
callVars == <<arg, ret, returned>>
appVars == <<app>>
metricVars == <<delivrd_total>>

cacheVars == <<ttl, cache>>
hlrVars == <<permits, httpCount>>
dbVars == <<saveTasks, store>>
peerVars == <<inbox, sent, peerOpen>>
sessVars == <<closed, authenticated, sequence_number>>

(***************************************************************************)
(* HLR records.                                                            *)
(***************************************************************************)
RawRecords ==
    { [error |-> 0, status |-> 0, present |-> "yes"],
      [error |-> 1, status |-> 1, present |-> "na"] }

\* What one HTTP GET can produce.
HlrReplies ==
    { [kind |-> "record", record |-> r] : r \in RawRecords }
    \cup { [kind |-> k, record |-> [error |-> AbsentInt, status |-> AbsentInt,
                                    present |-> Absent]]
           : k \in {"empty", "timeout", "http_error", "malformed"} }

NoRecord == [error |-> AbsentInt, status |-> AbsentInt, present |-> Absent,
             classification |-> Absent]

\* dict.get(field, default) on an integer field
GetInt(v, default) == IF v = AbsentInt THEN default ELSE v

\* mutant: only the error code is looked at
ClassifyResult_ErrorOnly(result) ==
    IF GetInt(result.error, 0) = 0 THEN "valid" ELSE "invalid"

ClassifyResult(result) ==
    LET error == GetInt(result.error, 0)
        status == GetInt(result.status, 1)
    IN IF error = 0 /\ status = 0 THEN "valid" ELSE "invalid"

\* The outcome of HLRClient._sync_hlr_request for one reply of the HLR.
SyncHlrRequest(reply) ==
    CASE reply.kind = "timeout" ->
            [kind |-> "TimeoutException", record |-> NoRecord]
      [] reply.kind = "http_error" ->
            [kind |-> "HTTPError", record |-> NoRecord]
      [] reply.kind = "malformed" ->
            [kind |-> "Exception", record |-> NoRecord]
      [] OTHER ->
            LET result == IF reply.kind = "empty"
                          THEN [error |-> 1, status |-> 1, present |-> Absent]
                          ELSE reply.record
            IN [kind |-> "ok",
                record |-> [error |-> result.error, status |-> result.status,
                            present |-> result.present,
                            classification |-> ClassifyResult(result)]]

(***************************************************************************)
(* Cache (src/hlr/cache.py).  json.dumps lays the record out as text,      *)
(* json.loads rebuilds the mapping.                                        *)
(***************************************************************************)
JsonDumps(r) == <<r.error, r.status, r.present, r.classification>>

JsonLoads(d) == [error |-> d[1], status |-> d[2], present |-> d[3],
                 classification |-> d[4]]

\* mutant: get never finds the key
CacheGet_AlwaysMiss(m, redisOk) == NoRecord

\* HLRCache.get: None (NoRecord) when caching is disabled, when the Redis
\* command raises (redisOk = FALSE) and on a miss
CacheGet(m, redisOk) ==
    IF ttl = 0 THEN NoRecord
    ELSE IF ~redisOk THEN NoRecord
    ELSE IF cache[m] # NoData THEN JsonLoads(cache[m])
    ELSE NoRecord

\* mutant: the exception of the Redis command leaves get
CacheGetRaises_Propagates(redisOk) == ttl # 0 /\ ~redisOk

\* HLRCache.get catches every exception of the Redis command, logs it and
\* returns None: no exception reaches lookup
CacheGetRaises(redisOk) == FALSE

\* mutant: set stores whatever the TTL is
CacheSet_IgnoresTtl(m, result, redisOk) ==
    IF ~redisOk THEN cache ELSE [cache EXCEPT ![m] = JsonDumps(result)]

\* HLRCache.set: the cache after set(m, result); nothing is stored when
\* caching is disabled or the Redis command raises
CacheSet(m, result, redisOk) ==
    IF ttl = 0 THEN cache
    ELSE IF ~redisOk THEN cache
    ELSE [cache EXCEPT ![m] = JsonDumps(result)]

(***************************************************************************)
(* PDUs.                                                                   *)
(***************************************************************************)
\* A PDU as the peer sends it (header and the parsed body fields).
InPdu(command_id, sequence, password, source_addr, destination_addr) ==
    [command_id |-> command_id, sequence |-> sequence,
     system_id |-> smpp_system_id, password |-> password,
     source_addr |-> source_addr, destination_addr |-> destination_addr]

\* mutant: the header is packed with a sequence number of the server's own
OutPdu_OwnSequence(command_id, resp, command_status, sequence, message_id) ==
    [command_id |-> command_id, resp |-> resp,
     command_status |-> command_status, sequence |-> 0,
     message_id |-> message_id, esm_class |-> 0,
     source_addr |-> "", destination_addr |-> ""]

\* A PDU as _send_response / _handle_enquire_link hands it to writer.write.
OutPdu(command_id, resp, command_status, sequence, message_id) ==
    [command_id |-> command_id, resp |-> resp,
     command_status |-> command_status, sequence |-> sequence,
     message_id |-> message_id, esm_class |-> 0,
     source_addr |-> "", destination_addr |-> ""]

\* mutant: every DeliverSM carries the first sequence number
DeliverSm_FixedSequence(sequence, source_addr, destination_addr, message_id) ==
    [command_id |-> SMPP_CMD_DELIVER_SM, resp |-> FALSE,
     command_status |-> 0, sequence |-> 1,
     message_id |-> message_id, esm_class |-> ESM_CLASS_DLR,
     source_addr |-> source_addr, destination_addr |-> destination_addr]

\* The DeliverSM built by send_deliver_sm; message_id is the id: field of
\* the DLR text.
DeliverSm(sequence, source_addr, destination_addr, message_id) ==
    [command_id |-> SMPP_CMD_DELIVER_SM, resp |-> FALSE,
     command_status |-> 0, sequence |-> sequence,
     message_id |-> message_id, esm_class |-> ESM_CLASS_DLR,
     source_addr |-> source_addr, destination_addr |-> destination_addr]

Passwords == {smpp_password, "wrong"}

\* The PDUs a peer may send as its PDU number n.
PeerPdus(n) ==
    { InPdu(SMPP_CMD_BIND_TRANSCEIVER, n, pw, "", "") : pw \in Passwords }
    \cup { InPdu(c, n, "", "", "")
           : c \in {SMPP_CMD_UNBIND, SMPP_CMD_ENQUIRE_LINK} }
    \cup { InPdu(SMPP_CMD_SUBMIT_SM, n, "", src, dst)
           : src \in SourceAddrs, dst \in MSISDNs }

NoCur == [sequence |-> 0, source_addr |-> "", destination_addr |-> "",
          message_id |-> NoId, held |-> NoData, readable |-> FALSE,
          http |-> FALSE]

NoEv == [sess |-> "", sequence |-> 0, message_id |-> NoId,
         destination_addr |-> "", kind |-> "",
         record |-> NoRecord, returned |-> FALSE, command_status |-> 0,
         held |-> NoData, readable |-> FALSE, http |-> FALSE, via |-> ""]

\* mutant: every call returns the same token
GenerateMessageId_Constant(s, sequence) == <<"id", 0>>

\* generate_message_id: uuid4, a token no other call returns
GenerateMessageId(s, sequence) == <<s, sequence>>

\* str(uuid.uuid4()): hexadecimal digits in groups of 8-4-4-4-12, joined by
\* hyphens
UuidGroups == <<8, 4, 4, 4, 12>>

RECURSIVE SumSeq(_)
SumSeq(q) == IF q = <<>> THEN 0 ELSE Head(q) + SumSeq(Tail(q))

\* len(message_id)
MessageIdLength(message_id) ==
    IF message_id = NoId THEN 0
    ELSE SumSeq(UuidGroups) + (Len(UuidGroups) - 1)

(***************************************************************************)
(* SubmitSMHandler.handle_submit_sm after hlr_client.lookup has returned   *)
(* or raised res.kind: the dict it returns (returned = FALSE when it falls *)
(* off the end and returns None) and whether it created the DLR task.      *)
(***************************************************************************)
\* mutant: the valid branch accepts
HandleSubmitSm_AcceptsValid(res, message_id) ==
    IF res.kind = "ok"
    THEN [returned |-> TRUE, command_status |-> ESME_ROK,
          message_id |-> message_id, dlr |-> TRUE]
    ELSE [returned |-> TRUE, command_status |-> ESME_RSYSERR,
          message_id |-> NoId, dlr |-> FALSE]

\* mutant: a timeout is answered with ESME_RSYSERR but the DLR is scheduled
HandleSubmitSm_DlrOnTimeout(res, message_id) ==
    IF res.kind = "ok"
    THEN IF res.record.classification = "valid"
         THEN [returned |-> TRUE, command_status |-> ESME_RINVDSTADR,
               message_id |-> NoId, dlr |-> FALSE]
         ELSE [returned |-> TRUE, command_status |-> ESME_ROK,
               message_id |-> message_id, dlr |-> TRUE]
    ELSE [returned |-> TRUE, command_status |-> ESME_RSYSERR,
          message_id |-> NoId, dlr |-> (res.kind = "TimeoutException")]

\* mutant: a timeout policy other than reject, the handler returns nothing
HandleSubmitSm_NoReject(res, message_id) ==
    IF res.kind = "ok"
    THEN IF res.record.classification = "valid"
         THEN [returned |-> TRUE, command_status |-> ESME_RINVDSTADR,
               message_id |-> NoId, dlr |-> FALSE]
         ELSE [returned |-> TRUE, command_status |-> ESME_ROK,
               message_id |-> message_id, dlr |-> TRUE]
    ELSE IF res.kind = "TimeoutException"
         THEN [returned |-> FALSE, command_status |-> 0,
               message_id |-> NoId, dlr |-> FALSE]
         ELSE [returned |-> TRUE, command_status |-> ESME_RSYSERR,
               message_id |-> NoId, dlr |-> FALSE]

\* mutant: the timeout branch falls through without a result
HandleSubmitSm_SilentTimeout(res, message_id) ==
    CASE res.kind = "ok" ->
            IF res.record.classification = "valid"
            THEN [returned |-> TRUE, command_status |-> ESME_RINVDSTADR,
                  message_id |-> NoId, dlr |-> FALSE]
            ELSE [returned |-> TRUE, command_status |-> ESME_ROK,
                  message_id |-> message_id, dlr |-> TRUE]
      [] res.kind = "TimeoutException" ->
            [returned |-> FALSE, command_status |-> 0,
             message_id |-> NoId, dlr |-> FALSE]
      [] OTHER ->
            [returned |-> TRUE, command_status |-> ESME_RSYSERR,
             message_id |-> NoId, dlr |-> FALSE]

HandleSubmitSm(res, message_id) ==
    CASE res.kind = "ok" ->
            LET classification ==
                    IF res.record.classification = Absent THEN "invalid"
                    ELSE res.record.classification
            IN IF classification = "valid"
               THEN [returned |-> TRUE, command_status |-> ESME_RINVDSTADR,
                     message_id |-> NoId, dlr |-> FALSE]
               ELSE [returned |-> TRUE, command_status |-> ESME_ROK,
                     message_id |-> message_id, dlr |-> TRUE]
      [] res.kind = "TimeoutException" ->
            IF hlr_timeout_policy = "reject"
            THEN [returned |-> TRUE, command_status |-> ESME_RSYSERR,
                  message_id |-> NoId, dlr |-> FALSE]
            ELSE [returned |-> FALSE, command_status |-> 0,
                  message_id |-> NoId, dlr |-> FALSE]
      [] OTHER ->
            [returned |-> TRUE, command_status |-> ESME_RSYSERR,
             message_id |-> NoId, dlr |-> FALSE]

\* The task created by asyncio.create_task(self._send_DELIVRD_dlr(...)).
DlrTask(s, message_id, source_addr, destination_addr) ==
    [sess |-> s, message_id |-> message_id, source_addr |-> source_addr,
     destination_addr |-> destination_addr, state |-> "pending"]

(***************************************************************************)
(* Init: the state after startup, before any peer has sent a PDU.          *)
(***************************************************************************)
(***************************************************************************)
(* Application: the steps of startup and shutdown in the order run takes   *)
(* them, and what run keeps between them.                                  *)
(***************************************************************************)
\* mutant: the server task is created before the HLR client is initialised
StartupSteps_ServerBeforeHlr ==
    <<"metrics", "cache", "db", "warmup", "server", "hlr">>

StartupSteps == <<"metrics", "cache", "db", "warmup", "hlr", "server">>

ShutdownSteps == <<"server", "hlr", "db", "cache">>

\* the application between the creation of the server task and the signal,
\* with every optional component enabled
AppServing ==
    [phase |-> "wait", step |-> 0, run |-> 1,
     metrics_enabled |-> TRUE, db_enabled |-> TRUE,
     cache_warmup_enabled |-> TRUE,
     shutdown_event |-> FALSE, failed |-> "", warmup_failed |-> FALSE,
     smpp_server |-> TRUE, server_task |-> "serving", accepted |-> 0,
     trace |-> <<"metrics", "cache.connect", "db.connect", "warmup",
                 "hlr.connect", "listener.start">>]

InitGateway ==
    /\ app = AppServing
    /\ delivrd_total = 0
    /\ ttl \in {0, DefaultTtl}
    /\ cache = [m \in MSISDNs |-> NoData]
    /\ permits = SemaphoreCapacity
    /\ httpCount = [m \in MSISDNs |-> 0]
    /\ saveTasks = {}
    /\ store = {}
    /\ inbox = [s \in Sessions |-> <<>>]
    /\ sent = [s \in Sessions |-> 0]
    /\ peerOpen = [s \in Sessions |-> TRUE]
    /\ closed = [s \in Sessions |-> FALSE]
    /\ authenticated = [s \in Sessions |-> FALSE]
    /\ sequence_number = [s \in Sessions |-> 1]
    /\ out = [s \in Sessions |-> <<>>]
    /\ pc = [s \in Sessions |-> "read"]
    /\ cur = [s \in Sessions |-> NoCur]
    /\ dlrTasks = {}
    /\ ev = NoEv

Init ==
    /\ InitGateway
    /\ arg = NoArg
    /\ ret = NoRet
    /\ returned = FALSE

(***************************************************************************)
(* The peer.  It sends its next PDU, or closes, once the reader has taken  *)
(* the previous one: the reader sees the stream one PDU at a time, so      *)
(* deeper socket buffers add no behaviour of the gateway.                  *)
(***************************************************************************)
RECURSIVE SumOver(_, _)
SumOver(f, S) ==
    IF S = {} THEN 0
    ELSE LET x == CHOOSE y \in S : TRUE IN f[x] + SumOver(f, S \ {x})

TotalSent == SumOver(sent, Sessions)

PeerSend(s) ==
    /\ peerOpen[s] /\ ~closed[s]
    /\ TotalSent < MaxPdus
    /\ inbox[s] = <<>>
    /\ \E pdu \in PeerPdus(sent[s] + 1) :
          inbox' = [inbox EXCEPT ![s] = Append(@, pdu)]
    /\ sent' = [sent EXCEPT ![s] = @ + 1]
    /\ ev' = NoEv
    /\ UNCHANGED <<cacheVars, hlrVars, dbVars, peerOpen, sessVars, out, pc,
                   cur, dlrTasks>>
    /\ UNCHANGED <<callVars, appVars, metricVars>>

PeerClose(s) ==
    /\ peerOpen[s] /\ ~closed[s]
    /\ TotalSent < MaxPdus
    /\ inbox[s] = <<>>
    /\ peerOpen' = [peerOpen EXCEPT ![s] = FALSE]
    /\ sent' = [sent EXCEPT ![s] = @ + 1]
    /\ inbox' = [inbox EXCEPT ![s] =
                    Append(@, InPdu(CMD_EOF, 0, "", "", ""))]
    /\ ev' = NoEv
    /\ UNCHANGED <<cacheVars, hlrVars, dbVars, sessVars, out, pc, cur,
                   dlrTasks>>
    /\ UNCHANGED <<callVars, appVars, metricVars>>

(***************************************************************************)
(* SMPPSession.run / _process_pdu: the reader takes the next PDU only when *)
(* the handler of the previous one has returned (pc = "read").             *)
(***************************************************************************)
CanRead(s, command_id) ==
    /\ ~closed[s]
    /\ pc[s] = "read"
    /\ inbox[s] # <<>>
    /\ Head(inbox[s]).command_id = command_id

\* mutant: the PDU goes to the socket of every session
Write_Broadcast(s, pdu) == out' = [r \in Sessions |-> Append(out[r], pdu)]

\* writer.write(header + body): one call, the PDU is appended whole
Write(s, pdu) == out' = [out EXCEPT ![s] = Append(@, pdu)]

Consume(s) ==
    /\ inbox' = [inbox EXCEPT ![s] = Tail(@)]
    /\ UNCHANGED <<sent, peerOpen>>

\* readexactly raises IncompleteReadError: the loop breaks, _handle_client
\* closes the writer.
ReadEof(s) ==
    /\ CanRead(s, CMD_EOF)
    /\ Consume(s)
    /\ closed' = [closed EXCEPT ![s] = TRUE]
    /\ ev' = NoEv
    /\ UNCHANGED <<cacheVars, hlrVars, dbVars, authenticated,
                   sequence_number, out, pc, cur, dlrTasks>>
    /\ UNCHANGED <<callVars, appVars, metricVars>>

HandleBind(s) ==
    /\ CanRead(s, SMPP_CMD_BIND_TRANSCEIVER)
    /\ LET pdu == Head(inbox[s]) IN
         IF pdu.system_id = smpp_system_id /\ pdu.password = smpp_password
         THEN /\ authenticated' = [authenticated EXCEPT ![s] = TRUE]
              /\ Write(s, OutPdu(pdu.command_id, TRUE, ESME_ROK,
                                 pdu.sequence, NoId))
         ELSE /\ authenticated' = authenticated
              /\ Write(s, OutPdu(pdu.command_id, TRUE, SMPP_ESME_RINVPASWD,
                                 pdu.sequence, NoId))
    /\ Consume(s)
    /\ ev' = NoEv
    /\ UNCHANGED <<cacheVars, hlrVars, dbVars, closed, sequence_number, pc,
                   cur, dlrTasks>>
    /\ UNCHANGED <<callVars, appVars, metricVars>>

HandleUnbind(s) ==
    /\ CanRead(s, SMPP_CMD_UNBIND)
    /\ LET pdu == Head(inbox[s]) IN
         Write(s, OutPdu(pdu.command_id, TRUE, ESME_ROK, pdu.sequence, NoId))
    /\ authenticated' = [authenticated EXCEPT ![s] = FALSE]
    /\ Consume(s)
    /\ ev' = NoEv
    /\ UNCHANGED <<cacheVars, hlrVars, dbVars, closed, sequence_number, pc,
                   cur, dlrTasks>>
    /\ UNCHANGED <<callVars, appVars, metricVars>>

HandleEnquireLink(s) ==
    /\ CanRead(s, SMPP_CMD_ENQUIRE_LINK)
    /\ LET pdu == Head(inbox[s]) IN
         Write(s, OutPdu(pdu.command_id, TRUE, ESME_ROK, pdu.sequence, NoId))
    /\ Consume(s)
    /\ ev' = NoEv
    /\ UNCHANGED <<cacheVars, hlrVars, dbVars, sessVars, pc, cur, dlrTasks>>
    /\ UNCHANGED <<callVars, appVars, metricVars>>

\* mutant: the error response is followed by the end of the reader loop
RejectSubmitUnbound_Closes(s) ==
    /\ CanRead(s, SMPP_CMD_SUBMIT_SM)
    /\ ~authenticated[s]
    /\ LET pdu == Head(inbox[s]) IN
         Write(s, OutPdu(pdu.command_id, TRUE, SMPP_ESME_RINVBNDSTS,
                         pdu.sequence, NoId))
    /\ closed' = [closed EXCEPT ![s] = TRUE]
    /\ Consume(s)
    /\ ev' = NoEv
    /\ UNCHANGED <<cacheVars, hlrVars, dbVars, authenticated,
                   sequence_number, pc, cur, dlrTasks>>
    /\ UNCHANGED <<callVars, appVars, metricVars>>

\* _process_pdu, SUBMIT_SM while not authenticated
RejectSubmitUnbound(s) ==
    /\ CanRead(s, SMPP_CMD_SUBMIT_SM)
    /\ ~authenticated[s]
    /\ LET pdu == Head(inbox[s]) IN
         Write(s, OutPdu(pdu.command_id, TRUE, SMPP_ESME_RINVBNDSTS,
                         pdu.sequence, NoId))
    /\ Consume(s)
    /\ ev' = NoEv
    /\ UNCHANGED <<cacheVars, hlrVars, dbVars, sessVars, pc, cur, dlrTasks>>
    /\ UNCHANGED <<callVars, appVars, metricVars>>

(***************************************************************************)
(* SMPPSession._handle_submit_sm from the return of hlr_client.lookup to   *)
(* the write of SUBMIT_SM_RESP.  Nothing is awaited in between: the        *)
(* handler creates the DLR task (which starts at the next turn of the      *)
(* event loop at the earliest) and returns, and the response body is       *)
(* shorter than 100 bytes, so _send_response writes without draining.      *)
(* A handler that returned None makes result['command_status'] raise: the  *)
(* reader loop breaks and the connection is closed.                        *)
(***************************************************************************)
\* mutant: the DLR coroutine is awaited in the handler instead of being
\* created as a task, so with no delay its DeliverSM precedes the response
FinishSubmit_DlrInline(s, c, res, via) ==
    LET d == HandleSubmitSm(res, c.message_id)
        resp == OutPdu(SMPP_CMD_SUBMIT_SM, TRUE, d.command_status,
                       c.sequence, d.message_id)
        dlr == DeliverSm(sequence_number[s], c.destination_addr,
                         c.source_addr, c.message_id)
    IN /\ dlrTasks' = IF d.dlr
                      THEN dlrTasks \cup
                             {[DlrTask(s, c.message_id, c.source_addr,
                                       c.destination_addr)
                                  EXCEPT !.state = "sent"]}
                      ELSE dlrTasks
       /\ out' = [out EXCEPT ![s] = IF d.dlr THEN Append(Append(@, dlr), resp)
                                    ELSE Append(@, resp)]
       /\ closed' = closed
       /\ ev' = [sess |-> s, sequence |-> c.sequence,
                 message_id |-> c.message_id,
                 destination_addr |-> c.destination_addr, kind |-> res.kind,
                 record |-> res.record, returned |-> d.returned,
                 command_status |-> d.command_status, held |-> c.held,
                 readable |-> c.readable, http |-> c.http, via |-> via]
       /\ pc' = [pc EXCEPT ![s] = "read"]
       /\ cur' = [cur EXCEPT ![s] = NoCur]

FinishSubmit(s, c, res, via) ==
    LET d == HandleSubmitSm(res, c.message_id)
    IN /\ dlrTasks' = IF d.dlr
                      THEN dlrTasks \cup {DlrTask(s, c.message_id,
                                                  c.source_addr,
                                                  c.destination_addr)}
                      ELSE dlrTasks
       /\ IF d.returned
          THEN /\ Write(s, OutPdu(SMPP_CMD_SUBMIT_SM, TRUE, d.command_status,
                                  c.sequence, d.message_id))
               /\ closed' = closed
          ELSE /\ out' = out
               /\ closed' = [closed EXCEPT ![s] = TRUE]
       /\ ev' = [sess |-> s, sequence |-> c.sequence,
                 message_id |-> c.message_id,
                 destination_addr |-> c.destination_addr, kind |-> res.kind,
                 record |-> res.record, returned |-> d.returned,
                 command_status |-> d.command_status, held |-> c.held,
                 readable |-> c.readable, http |-> c.http, via |-> via]
       /\ pc' = [pc EXCEPT ![s] = "read"]
       /\ cur' = [cur EXCEPT ![s] = NoCur]

(***************************************************************************)
(* HLRClient.lookup, called from handle_submit_sm.                         *)
(***************************************************************************)
\* _handle_submit_sm up to the first cache.get of lookup
SubmitStart(s) ==
    /\ CanRead(s, SMPP_CMD_SUBMIT_SM)
    /\ authenticated[s]
    /\ \E redisOk \in BOOLEAN :
       LET pdu == Head(inbox[s])
           cached == CacheGet(pdu.destination_addr, redisOk)
           c == [sequence |-> pdu.sequence, source_addr |-> pdu.source_addr,
                 destination_addr |-> pdu.destination_addr,
                 message_id |-> GenerateMessageId(s, pdu.sequence),
                 held |-> cache[pdu.destination_addr],
                 readable |-> (ttl # 0 /\ redisOk), http |-> FALSE]
       IN IF CacheGetRaises(redisOk)
          THEN FinishSubmit(s, c, [kind |-> "Exception",
                                   record |-> NoRecord], "cache")
          ELSE IF cached # NoRecord
          THEN FinishSubmit(s, c, [kind |-> "ok", record |-> cached], "hit")
          ELSE /\ cur' = [cur EXCEPT ![s] = c]
               /\ pc' = [pc EXCEPT ![s] = "acquire"]
               /\ ev' = NoEv
               /\ UNCHANGED <<out, closed, dlrTasks>>
    /\ Consume(s)
    /\ UNCHANGED <<cacheVars, hlrVars, dbVars, authenticated,
                   sequence_number>>
    /\ UNCHANGED <<callVars, appVars, metricVars>>

\* mutant: the request goes ahead without waiting for a permit
Acquire_NoWait(s) ==
    /\ pc[s] = "acquire"
    /\ permits' = permits - 1
    /\ pc' = [pc EXCEPT ![s] = "recheck"]
    /\ ev' = NoEv
    /\ UNCHANGED <<cacheVars, httpCount, dbVars, peerVars, sessVars, out,
                   cur, dlrTasks>>
    /\ UNCHANGED <<callVars, appVars, metricVars>>

\* async with self.semaphore
Acquire(s) ==
    /\ pc[s] = "acquire"
    /\ permits > 0
    /\ permits' = permits - 1
    /\ pc' = [pc EXCEPT ![s] = "recheck"]
    /\ ev' = NoEv
    /\ UNCHANGED <<cacheVars, httpCount, dbVars, peerVars, sessVars, out,
                   cur, dlrTasks>>
    /\ UNCHANGED <<callVars, appVars, metricVars>>

\* the second cache.get, under the permit; on a miss the request is handed
\* to the thread pool
Recheck(s) ==
    /\ pc[s] = "recheck"
    /\ \E redisOk \in BOOLEAN :
       LET m == cur[s].destination_addr
           cached == CacheGet(m, redisOk)
       IN IF CacheGetRaises(redisOk)
          THEN /\ FinishSubmit(s, cur[s], [kind |-> "Exception",
                                           record |-> NoRecord], "cache")
               /\ permits' = permits + 1
               /\ httpCount' = httpCount
          ELSE IF cached # NoRecord
          THEN /\ FinishSubmit(s, cur[s], [kind |-> "ok", record |-> cached],
                               "recheck")
               /\ permits' = permits + 1
               /\ httpCount' = httpCount
          ELSE /\ httpCount' = [httpCount EXCEPT ![m] = @ + 1]
               /\ cur' = [cur EXCEPT ![s].http = TRUE]
               /\ pc' = [pc EXCEPT ![s] = "http"]
               /\ ev' = NoEv
               /\ UNCHANGED <<permits, out, closed, dlrTasks>>
    /\ UNCHANGED <<cacheVars, dbVars, peerVars, authenticated,
                   sequence_number>>
    /\ UNCHANGED <<callVars, appVars, metricVars>>

\* mutant: the row keeps the reply of the HLR as it came, unstamped
SaveTask_RawResponse(s, c, result) ==
    [msisdn |-> c.destination_addr, classification |-> result.classification,
     hlr_response |-> JsonDumps([result EXCEPT !.classification = Absent]),
     cached |-> FALSE, by |-> <<s, c.sequence>>]

\* The row save_hlr_lookup inserts; by stands for the row's identity.
SaveTask(s, c, result) ==
    [msisdn |-> c.destination_addr, classification |-> result.classification,
     hlr_response |-> JsonDumps(result), cached |-> FALSE,
     by |-> <<s, c.sequence>>]

\* mutant: the error path caches a synthetic record
CacheAfterLookup_CachesFailure(m, res, redisOk) ==
    IF res.kind = "ok" THEN CacheSet(m, res.record, redisOk)
    ELSE CacheSet(m, [error |-> 1, status |-> 1, present |-> Absent,
                      classification |-> "invalid"], redisOk)

\* lookup's try block: the cache after the request returned (cache.set) or
\* raised (nothing is cached, the exception is re-raised)
CacheAfterLookup(m, res, redisOk) ==
    IF res.kind = "ok" THEN CacheSet(m, res.record, redisOk) ELSE cache

\* run_in_executor returns or raises; on success cache.set, the detached
\* store append, then the permit is released and the handler continues.
\* mutant: the permit is given back only when the request succeeded
HttpReturn_LeaksOnError(s) ==
    /\ pc[s] = "http"
    /\ \E reply \in HlrReplies, redisOk \in BOOLEAN :
         LET res == SyncHlrRequest(reply)
             m == cur[s].destination_addr
         IN /\ cache' = CacheAfterLookup(m, res, redisOk)
            /\ saveTasks' = IF res.kind = "ok"
                            THEN saveTasks \cup
                                    {SaveTask(s, cur[s], res.record)}
                            ELSE saveTasks
            /\ FinishSubmit(s, cur[s], res, "http")
            /\ permits' = IF res.kind = "ok" THEN permits + 1 ELSE permits
    /\ UNCHANGED <<ttl, httpCount, store, peerVars, authenticated,
                   sequence_number>>
    /\ UNCHANGED <<callVars, appVars, metricVars>>

HttpReturn(s) ==
    /\ pc[s] = "http"
    /\ \E reply \in HlrReplies, redisOk \in BOOLEAN :
         LET res == SyncHlrRequest(reply)
             m == cur[s].destination_addr
         IN /\ cache' = CacheAfterLookup(m, res, redisOk)
            /\ saveTasks' = IF res.kind = "ok"
                            THEN saveTasks \cup
                                    {SaveTask(s, cur[s], res.record)}
                            ELSE saveTasks
            /\ FinishSubmit(s, cur[s], res, "http")
    /\ permits' = permits + 1
    /\ UNCHANGED <<ttl, httpCount, store, peerVars, authenticated,
                   sequence_number>>
    /\ UNCHANGED <<callVars, appVars, metricVars>>

(***************************************************************************)
(* DatabaseClient.save_hlr_lookup, run as a detached task.                 *)
(***************************************************************************)
SaveHlrLookup(t) ==
    /\ t \in saveTasks
    /\ saveTasks' = saveTasks \ {t}
    /\ store' = store \cup {t}
    /\ ev' = NoEv
    /\ UNCHANGED <<cacheVars, hlrVars, peerVars, sessVars, out, pc, cur,
                   dlrTasks>>
    /\ UNCHANGED <<callVars, appVars, metricVars>>

(***************************************************************************)
(* SubmitSMHandler._send_DELIVRD_dlr after its sleep, with                 *)
(* SMPPSession.send_deliver_sm.                                            *)
(***************************************************************************)
\* mutant: the authenticated check is missing
MaySendDeliverSm_Always(s) == TRUE

\* mutant: the check is inverted
MaySendDeliverSm_Inverted(s) == ~authenticated[s]

\* send_deliver_sm returns at once when this is false
MaySendDeliverSm(s) == authenticated[s]

DlrFire(t) ==
    /\ t \in dlrTasks
    /\ t.state = "pending"
    /\ LET s == t.sess IN
         IF ~MaySendDeliverSm(s)
         THEN /\ dlrTasks' = (dlrTasks \ {t}) \cup
                                {[t EXCEPT !.state = "dropped"]}
              /\ UNCHANGED <<out, sequence_number>>
         ELSE /\ sequence_number' = [sequence_number EXCEPT ![s] = @ + 1]
              /\ IF closed[s]
                 THEN \* the writer is closed already
                      /\ dlrTasks' = (dlrTasks \ {t}) \cup
                                        {[t EXCEPT !.state = "late"]}
                      /\ out' = out
                 ELSE /\ dlrTasks' = (dlrTasks \ {t}) \cup
                                        {[t EXCEPT !.state = "sent"]}
                      /\ Write(s, DeliverSm(sequence_number[s],
                                            t.destination_addr,
                                            t.source_addr, t.message_id))
    /\ delivrd_total' = delivrd_total + 1
    /\ ev' = NoEv
    /\ UNCHANGED <<cacheVars, hlrVars, dbVars, peerVars, closed,
                   authenticated, pc, cur>>
    /\ UNCHANGED <<callVars, appVars>>

\* the TTL of a key elapses
Expire(m) ==
    /\ cache[m] # NoData
    /\ cache' = [cache EXCEPT ![m] = NoData]
    /\ ev' = NoEv
    /\ UNCHANGED <<ttl, hlrVars, dbVars, peerVars, sessVars, out, pc, cur,
                   dlrTasks>>
    /\ UNCHANGED <<callVars, appVars, metricVars>>

Next ==
    \/ \E s \in Sessions : PeerSend(s)
    \/ \E s \in Sessions : PeerClose(s)
    \/ \E s \in Sessions : ReadEof(s)
    \/ \E s \in Sessions : HandleBind(s)
    \/ \E s \in Sessions : HandleUnbind(s)
    \/ \E s \in Sessions : HandleEnquireLink(s)
    \/ \E s \in Sessions : RejectSubmitUnbound(s)
    \/ \E s \in Sessions : SubmitStart(s)
    \/ \E s \in Sessions : Acquire(s)
    \/ \E s \in Sessions : Recheck(s)
    \/ \E s \in Sessions : HttpReturn(s)
    \/ \E t \in saveTasks : SaveHlrLookup(t)
    \/ \E t \in dlrTasks : DlrFire(t)
    \/ \E m \in MSISDNs : Expire(m)

Spec == Init /\ [][Next]_vars

(***************************************************************************)
(* The event loop runs every DLR task whose sleep has elapsed.             *)
(***************************************************************************)
MessageIds == { GenerateMessageId(s, n) : s \in Sessions, n \in 1..MaxPdus }

DlrFireAny == \E t \in dlrTasks : DlrFire(t)

FairSpec == Spec /\ WF_vars(DlrFireAny)

(***************************************************************************)
(* A burst of SubmitSMs: peers that only bind with the right credentials   *)
(* and submit, so that several sessions can be inside lookup at once.      *)
(***************************************************************************)
MaxBurstPdus == MaxPdus + 1

BurstPdus(n) ==
    { InPdu(SMPP_CMD_BIND_TRANSCEIVER, n, smpp_password, "", "") }
    \cup { InPdu(SMPP_CMD_SUBMIT_SM, n, "", src, dst)
           : src \in SourceAddrs, dst \in MSISDNs }

PeerSendBurst(s) ==
    /\ peerOpen[s] /\ ~closed[s]
    /\ TotalSent < MaxBurstPdus
    /\ inbox[s] = <<>>
    /\ \E pdu \in BurstPdus(sent[s] + 1) :
          inbox' = [inbox EXCEPT ![s] = Append(@, pdu)]
    /\ sent' = [sent EXCEPT ![s] = @ + 1]
    /\ ev' = NoEv
    /\ UNCHANGED <<cacheVars, hlrVars, dbVars, peerOpen, sessVars, out, pc,
                   cur, dlrTasks>>
    /\ UNCHANGED <<callVars, appVars, metricVars>>

NextBurst ==
    \/ \E s \in Sessions : PeerSendBurst(s)
    \/ \E s \in Sessions : HandleBind(s)
    \/ \E s \in Sessions : RejectSubmitUnbound(s)
    \/ \E s \in Sessions : SubmitStart(s)
    \/ \E s \in Sessions : Acquire(s)
    \/ \E s \in Sessions : Recheck(s)
    \/ \E s \in Sessions : HttpReturn(s)
    \/ \E t \in saveTasks : SaveHlrLookup(t)
    \/ \E t \in dlrTasks : DlrFire(t)
    \/ \E m \in MSISDNs : Expire(m)

SpecBurst == Init /\ [][NextBurst]_vars

(***************************************************************************)
(* HLRClient._classify_result called on its own on one record of the HLR:  *)
(* any error and status code, present or missing, and any present value.   *)
(***************************************************************************)
ErrorCodes == {AbsentInt, 0, 1, 191, 192, 193}
StatusCodes == {AbsentInt, 0, 1, 2}
PresentValues == {Absent, "yes", "no", "na"}

ClassifyInputs ==
    [error : ErrorCodes, status : StatusCodes, present : PresentValues]

InitClassify ==
    /\ InitGateway
    /\ arg \in ClassifyInputs
    /\ ret = NoRet
    /\ returned = FALSE

ClassifyCall ==
    /\ ret = NoRet
    /\ ret' = ClassifyResult(arg)
    /\ returned' = TRUE
    /\ UNCHANGED <<arg, gatewayVars>>

NextClassify == ClassifyCall

SpecClassify == InitClassify /\ [][NextClassify]_vars


(***************************************************************************)
(* One turn of the loop of SMPPSession.run on its own: a header has been   *)
(* read, the stream holds `available` more bytes before it ends.           *)
(***************************************************************************)
HeaderLength == 16

FrameLengths == {0, 8, 15, 16, 17, 48, 65536, 65537, 100000}
FrameCommandIds ==
    {SMPP_CMD_BIND_TRANSCEIVER, SMPP_CMD_SUBMIT_SM, SMPP_CMD_ENQUIRE_LINK,
     SMPP_CMD_UNBIND}
FrameAvailable == {0, 1, 32, 65520, 65521, 99984}

FrameInputs ==
    [command_length : FrameLengths, command_id : FrameCommandIds,
     available : FrameAvailable]

\* the body is read only when command_length exceeds the header; the PDU
\* goes to _process_pdu unless the stream ends inside the body
ReadFrame(h) ==
    LET body_length == h.command_length - HeaderLength IN
      IF body_length > 0
      THEN IF h.available >= body_length
           THEN [outcome |-> "dispatch", command_id |-> h.command_id,
                 body |-> body_length, consumed |-> body_length]
           ELSE [outcome |-> "IncompleteReadError", command_id |-> h.command_id,
                 body |-> 0, consumed |-> h.available]
      ELSE [outcome |-> "dispatch", command_id |-> h.command_id,
            body |-> 0, consumed |-> 0]

InitFrame ==
    /\ InitGateway
    /\ arg \in FrameInputs
    /\ ret = NoRet
    /\ returned = FALSE

FrameCall ==
    /\ ~returned
    /\ ret' = ReadFrame(arg)
    /\ returned' = TRUE
    /\ UNCHANGED <<arg, gatewayVars>>

NextFrame == FrameCall

SpecFrame == InitFrame /\ [][NextFrame]_vars


(***************************************************************************)
(* SMPPSession._parse_submit_sm called on its own.  A body is a sequence   *)
(* of byte values, 0 being the NUL terminator; offsets count from 0 as in  *)
(* the code.                                                               *)
(***************************************************************************)
NUL == 0

MinOf(S) == CHOOSE x \in S : \A y \in S : x <= y

\* bytes.find(b'\x00', offset): the first NUL at or after offset, -1 if none
Find(body, offset) ==
    LET hits == { i \in offset..(Len(body) - 1) : body[i + 1] = NUL } IN
      IF hits = {} THEN -1 ELSE MinOf(hits)

\* an index of a slice: a negative one counts from the end, both are clamped
SliceIndex(body, i) ==
    LET n == Len(body) IN
      IF i < 0 THEN (IF i + n < 0 THEN 0 ELSE i + n)
      ELSE (IF i > n THEN n ELSE i)

\* body[a:b]
Slice(body, a, b) ==
    LET lo == SliceIndex(body, a)
        hi == SliceIndex(body, b)
    IN IF lo >= hi THEN <<>> ELSE SubSeq(body, lo + 1, hi)

\* bytes.decode('ascii', errors='ignore'): bytes above 127 are dropped
IsAscii(b) == b < 128
Decode(bytes) == SelectSeq(bytes, IsAscii)

NotParsed(outcome) ==
    [outcome |-> outcome, source_addr |-> <<>>, destination_addr |-> <<>>,
     short_message |-> <<>>]

ParseSubmitSm(body) ==
    LET service_type_end == Find(body, 0)
        offset1 == service_type_end + 1 + 2
        source_addr_end == Find(body, offset1)
        source_addr == Decode(Slice(body, offset1, source_addr_end))
        offset2 == source_addr_end + 1 + 2
        dest_addr_end == Find(body, offset2)
        destination_addr == Decode(Slice(body, offset2, dest_addr_end))
        offset3 == dest_addr_end + 1 + 3
        schedule_end == Find(body, offset3)
        offset4 == schedule_end + 1
        validity_end == Find(body, offset4)
        offset5 == validity_end + 1 + 4
    IN IF offset5 >= Len(body)
       THEN NotParsed("IndexError")
       ELSE LET sm_length == body[offset5 + 1]
                offset6 == offset5 + 1
            IN [outcome |-> "parsed",
                source_addr |-> source_addr,
                destination_addr |-> destination_addr,
                short_message |-> Slice(body, offset6, offset6 + sm_length)]

\* the layout the parser walks: five NUL-terminated strings, the fixed
\* bytes between them, sm_length and that many bytes of message
FollowsLayout(body) ==
    LET service_type_end == Find(body, 0)
        source_addr_end == Find(body, service_type_end + 3)
        dest_addr_end == Find(body, source_addr_end + 3)
        schedule_end == Find(body, dest_addr_end + 4)
        validity_end == Find(body, schedule_end + 1)
        offset == validity_end + 5
    IN /\ service_type_end >= 0
       /\ source_addr_end >= 0
       /\ dest_addr_end >= 0
       /\ schedule_end >= 0
       /\ validity_end >= 0
       /\ offset < Len(body)
       /\ offset + 1 + body[offset + 1] <= Len(body)

CStr(text) == text \o <<NUL>>

\* a SubmitSM body as a client encodes it
SubmitSmBody(service_type, source_addr, destination_addr, short_message) ==
    CStr(service_type) \o <<1, 1>> \o CStr(source_addr) \o <<1, 1>>
      \o CStr(destination_addr) \o <<0, 0, 0>> \o CStr(<<>>) \o CStr(<<>>)
      \o <<1, 0, 0, 0>> \o <<Len(short_message)>> \o short_message

ServiceTypes == {<<>>, <<67>>}
SourceTexts == {<<49>>, <<49, 200>>}
DestinationTexts == {<<55>>, <<55, 56>>}
ShortMessages == {<<>>, <<72, 105>>}

EncodedBodies ==
    { SubmitSmBody(st, sa, da, sm) :
        st \in ServiceTypes, sa \in SourceTexts, da \in DestinationTexts,
        sm \in ShortMessages }

\* a body cut short
TruncatedBodies ==
    UNION { { SubSeq(b, 1, k) : k \in 0..(Len(b) - 1) } : b \in EncodedBodies }

\* a body with one of its zero bytes overwritten
OverwrittenBodies ==
    UNION { { [b EXCEPT ![i] = 65] : i \in { j \in 1..Len(b) : b[j] = NUL } } :
            b \in EncodedBodies }

ParseInputs == EncodedBodies \cup TruncatedBodies \cup OverwrittenBodies

InitParse ==
    /\ InitGateway
    /\ arg \in ParseInputs
    /\ ret = NoRet
    /\ returned = FALSE

ParseCall ==
    /\ ~returned
    /\ ret' = ParseSubmitSm(arg)
    /\ returned' = TRUE
    /\ UNCHANGED <<arg, gatewayVars>>

NextParse == ParseCall

SpecParse == InitParse /\ [][NextParse]_vars


(***************************************************************************)
(* Peers that also send PDUs of a command the server has no handler for.   *)
(***************************************************************************)
\* query_sm: a command id outside the if/elif chain of _process_pdu
UnsupportedCommandIds == {3}

UnsupportedPdus(n) ==
    { InPdu(c, n, "", "", "") : c \in UnsupportedCommandIds }

PeerSendAny(s) ==
    /\ peerOpen[s] /\ ~closed[s]
    /\ TotalSent < MaxPdus
    /\ inbox[s] = <<>>
    /\ \E pdu \in PeerPdus(sent[s] + 1) \cup UnsupportedPdus(sent[s] + 1) :
          inbox' = [inbox EXCEPT ![s] = Append(@, pdu)]
    /\ sent' = [sent EXCEPT ![s] = @ + 1]
    /\ ev' = NoEv
    /\ UNCHANGED <<cacheVars, hlrVars, dbVars, peerOpen, sessVars, out, pc,
                   cur, dlrTasks>>
    /\ UNCHANGED <<callVars, appVars, metricVars>>

\* mutant: an unknown command is answered with a negative acknowledgement
HandleUnsupported_Nack(s) ==
    /\ \E c \in UnsupportedCommandIds : CanRead(s, c)
    /\ LET pdu == Head(inbox[s]) IN
         Write(s, OutPdu(0, TRUE, 3, pdu.sequence, NoId))
    /\ Consume(s)
    /\ ev' = NoEv
    /\ UNCHANGED <<cacheVars, hlrVars, dbVars, sessVars, pc, cur, dlrTasks>>
    /\ UNCHANGED <<callVars, appVars, metricVars>>

\* _process_pdu with a command_id no branch matches: the call returns and
\* run reads the next header
HandleUnsupported(s) ==
    /\ \E c \in UnsupportedCommandIds : CanRead(s, c)
    /\ Consume(s)
    /\ ev' = NoEv
    /\ UNCHANGED <<cacheVars, hlrVars, dbVars, sessVars, out, pc, cur,
                   dlrTasks>>
    /\ UNCHANGED <<callVars, appVars, metricVars>>

NextIgnore ==
    \/ \E s \in Sessions : PeerSendAny(s)
    \/ \E s \in Sessions : PeerClose(s)
    \/ \E s \in Sessions : ReadEof(s)
    \/ \E s \in Sessions : HandleBind(s)
    \/ \E s \in Sessions : HandleUnbind(s)
    \/ \E s \in Sessions : HandleEnquireLink(s)
    \/ \E s \in Sessions : HandleUnsupported(s)
    \/ \E s \in Sessions : RejectSubmitUnbound(s)
    \/ \E s \in Sessions : SubmitStart(s)
    \/ \E s \in Sessions : Acquire(s)
    \/ \E s \in Sessions : Recheck(s)
    \/ \E s \in Sessions : HttpReturn(s)
    \/ \E t \in saveTasks : SaveHlrLookup(t)
    \/ \E t \in dlrTasks : DlrFire(t)
    \/ \E m \in MSISDNs : Expire(m)

SpecIgnore == Init /\ [][NextIgnore]_vars


(***************************************************************************)
(* The gate under load: lookups of sessions other than those in Sessions   *)
(* hold all permits but one and stay in flight.                            *)
(***************************************************************************)
HeldElsewhere == SemaphoreCapacity - 1

InitGate ==
    /\ app = AppServing
    /\ delivrd_total = 0
    /\ ttl \in {0, DefaultTtl}
    /\ cache = [m \in MSISDNs |-> NoData]
    /\ permits = SemaphoreCapacity - HeldElsewhere
    /\ httpCount = [m \in MSISDNs |-> 0]
    /\ saveTasks = {}
    /\ store = {}
    /\ inbox = [s \in Sessions |-> <<>>]
    /\ sent = [s \in Sessions |-> 0]
    /\ peerOpen = [s \in Sessions |-> TRUE]
    /\ closed = [s \in Sessions |-> FALSE]
    /\ authenticated = [s \in Sessions |-> FALSE]
    /\ sequence_number = [s \in Sessions |-> 1]
    /\ out = [s \in Sessions |-> <<>>]
    /\ pc = [s \in Sessions |-> "read"]
    /\ cur = [s \in Sessions |-> NoCur]
    /\ dlrTasks = {}
    /\ ev = NoEv
    /\ arg = NoArg
    /\ ret = NoRet
    /\ returned = FALSE

\* enough for every session to bind and submit
MaxGatePdus == 2 * Cardinality(Sessions)

PeerSendGate(s) ==
    /\ peerOpen[s] /\ ~closed[s]
    /\ TotalSent < MaxGatePdus
    /\ inbox[s] = <<>>
    /\ \E pdu \in BurstPdus(sent[s] + 1) :
          inbox' = [inbox EXCEPT ![s] = Append(@, pdu)]
    /\ sent' = [sent EXCEPT ![s] = @ + 1]
    /\ ev' = NoEv
    /\ UNCHANGED <<cacheVars, hlrVars, dbVars, peerOpen, sessVars, out, pc,
                   cur, dlrTasks>>
    /\ UNCHANGED <<callVars, appVars, metricVars>>

NextGate ==
    \/ \E s \in Sessions : PeerSendGate(s)
    \/ \E s \in Sessions : HandleBind(s)
    \/ \E s \in Sessions : RejectSubmitUnbound(s)
    \/ \E s \in Sessions : SubmitStart(s)
    \/ \E s \in Sessions : Acquire(s)
    \/ \E s \in Sessions : Recheck(s)
    \/ \E s \in Sessions : HttpReturn(s)
    \/ \E t \in saveTasks : SaveHlrLookup(t)
    \/ \E t \in dlrTasks : DlrFire(t)
    \/ \E m \in MSISDNs : Expire(m)

SpecGate == InitGate /\ [][NextGate]_vars


(***************************************************************************)
(* SubmitSMHandler._send_DELIVRD_dlr called on its own: the task created   *)
(* when a SubmitSM is accepted at accepted_at wakes delay seconds later.   *)
(* Times are seconds on the wall clock.                                    *)
(***************************************************************************)
SecondsPerMinute == 60

\* strftime("%y%m%d%H%M"): the minute the time falls in, seconds dropped
FormatSmppDate(dt) == dt \div SecondsPerMinute

\* a date argument left at its default of None is read from the clock
BuildDlrText(message_id, stat, err, submit_date, done_date, now) ==
    LET submit == IF submit_date = AbsentInt THEN now ELSE submit_date
        done == IF done_date = AbsentInt THEN now ELSE done_date
    IN [id |-> message_id, sub |-> "001", dlvrd |-> "000",
        submit_date |-> FormatSmppDate(submit),
        done_date |-> FormatSmppDate(done),
        stat |-> stat, err |-> err, text |-> ""]

\* dict.get(field, default) on a text field
GetText(v, default) == IF v = Absent THEN default ELSE v

\* mutant: an unknown subscriber is reported with an error code of its own
GetErrorCodeFromHlr_UnknownSubscriber(hlr_result) ==
    LET error == GetInt(hlr_result.error, 0)
        status == GetInt(hlr_result.status, 0)
    IN IF status = 1 THEN "000"
       ELSE IF error = 1 THEN "001"
       ELSE "000"

GetErrorCodeFromHlr(hlr_result) ==
    LET error == GetInt(hlr_result.error, 0)
        status == GetInt(hlr_result.status, 0)
        present == GetText(hlr_result.present, "na")
    IN IF status = 1 THEN "000"
       ELSE IF error = 1 THEN "000"
       ELSE IF error = 2 THEN "000"
       ELSE IF error = 191 \/ error = 192 THEN "000"
       ELSE IF error = 193 THEN "000"
       ELSE IF present = "no" THEN "000"
       ELSE "000"

\* what the task hands to the session once its sleep is over: the DeliverSM
\* and the DLR text that is its short_message
SendDelivrdDlr(a) ==
    LET now == a.accepted_at + a.delay
        error_code == GetErrorCodeFromHlr(a.hlr_result)
        dlr_text == BuildDlrText(a.message_id, "DELIVRD", error_code,
                                 AbsentInt, AbsentInt, now)
    IN [pdu |-> DeliverSm(1, a.destination_addr, a.source_addr,
                          a.message_id),
        short_message |-> dlr_text]

AcceptTimes == {0, 30, 59, 60}
DlrDelays == {0, 1, 60}
DlrErrorCodes == {AbsentInt, 0, 1, 2, 191, 193}
DlrStatusCodes == {AbsentInt, 0, 1}
DlrPresentValues == {Absent, "yes", "no"}

DlrInputs ==
    [accepted_at : AcceptTimes, delay : DlrDelays,
     message_id : {GenerateMessageId("s1", 1)},
     source_addr : SourceAddrs, destination_addr : MSISDNs,
     hlr_result : [error : DlrErrorCodes, status : DlrStatusCodes,
                   present : DlrPresentValues]]

InitDlr ==
    /\ InitGateway
    /\ arg \in DlrInputs
    /\ ret = NoRet
    /\ returned = FALSE

DlrCall ==
    /\ ~returned
    /\ ret' = SendDelivrdDlr(arg)
    /\ returned' = TRUE
    /\ UNCHANGED <<arg, gatewayVars>>

NextDlr == DlrCall

SpecDlr == InitDlr /\ [][NextDlr]_vars


(***************************************************************************)
(* Application.run on its own: startup, the server task, the wait for the  *)
(* shutdown signal and shutdown.  Every step that can raise does so or     *)
(* not; an exception inside the try block of run leads to shutdown.        *)
(***************************************************************************)
\* mutant: an exception inside _warmup_cache leaves it
WarmupRaises_Propagates(ok) == ~ok

\* _warmup_cache catches every exception and logs it
WarmupRaises(ok) == FALSE

AppStart(metrics_enabled, db_enabled, cache_warmup_enabled) ==
    [phase |-> "startup", step |-> 1, run |-> 1,
     metrics_enabled |-> metrics_enabled, db_enabled |-> db_enabled,
     cache_warmup_enabled |-> cache_warmup_enabled,
     shutdown_event |-> FALSE, failed |-> "", warmup_failed |-> FALSE,
     smpp_server |-> FALSE, server_task |-> "none", accepted |-> 0,
     trace |-> <<>>]

InitApp ==
    /\ \E m, d, w \in BOOLEAN : app = AppStart(m, d, w)
    /\ delivrd_total = 0
    /\ ttl \in {0, DefaultTtl}
    /\ cache = [m \in MSISDNs |-> NoData]
    /\ permits = SemaphoreCapacity
    /\ httpCount = [m \in MSISDNs |-> 0]
    /\ saveTasks = {}
    /\ store = {}
    /\ inbox = [s \in Sessions |-> <<>>]
    /\ sent = [s \in Sessions |-> 0]
    /\ peerOpen = [s \in Sessions |-> TRUE]
    /\ closed = [s \in Sessions |-> FALSE]
    /\ authenticated = [s \in Sessions |-> FALSE]
    /\ sequence_number = [s \in Sessions |-> 1]
    /\ out = [s \in Sessions |-> <<>>]
    /\ pc = [s \in Sessions |-> "read"]
    /\ cur = [s \in Sessions |-> NoCur]
    /\ dlrTasks = {}
    /\ ev = NoEv
    /\ arg = NoArg
    /\ ret = NoRet
    /\ returned = FALSE

AtStartup(name) ==
    /\ app.phase = "startup"
    /\ StartupSteps[app.step] = name

AtShutdown(name) ==
    /\ app.phase = "shutdown"
    /\ ShutdownSteps[app.step] = name

\* the step returned: on to the next one, or to the wait for the signal
Advance(a) ==
    IF a.step = Len(StartupSteps)
    THEN [a EXCEPT !.phase = "wait", !.step = 0]
    ELSE [a EXCEPT !.step = @ + 1]

Done(a, event) == Advance([a EXCEPT !.trace = Append(@, event)])

\* the step raised: run logs the exception and goes to its finally block
Raised(a, name) == [a EXCEPT !.phase = "shutdown", !.step = 1, !.failed = name]

\* the shutdown step returned
Closed(a, events) ==
    IF a.step = Len(ShutdownSteps)
    THEN [a EXCEPT !.phase = "exit", !.step = 0, !.trace = @ \o events]
    ELSE [a EXCEPT !.step = @ + 1, !.trace = @ \o events]

AppOnly ==
    UNCHANGED <<ttl, hlrVars, dbVars, peerVars, sessVars, out, pc, cur,
                dlrTasks, ev, callVars, metricVars>>

StartMetrics ==
    /\ AtStartup("metrics")
    /\ \E ok \in BOOLEAN :
         app' = IF ~app.metrics_enabled THEN Advance(app)
                ELSE IF ok THEN Done(app, "metrics")
                ELSE Raised(app, "metrics")
    /\ UNCHANGED cache
    /\ AppOnly

CacheConnect ==
    /\ AtStartup("cache")
    /\ \E ok \in BOOLEAN :
         app' = IF ok THEN Done(app, "cache.connect") ELSE Raised(app, "cache")
    /\ UNCHANGED cache
    /\ AppOnly

DbConnect ==
    /\ AtStartup("db")
    /\ \E ok \in BOOLEAN :
         app' = IF ~app.db_enabled THEN Advance(app)
                ELSE IF ok THEN Done(app, "db.connect")
                ELSE Raised(app, "db")
    /\ UNCHANGED cache
    /\ AppOnly

\* what get_recent_lookups may return: of each MSISDN the latest row, if
\* it is recent enough and within the limit; the order of insertion is not
\* kept in the model, so any row of the MSISDN may be the latest
RecentLookups ==
    { rows \in SUBSET store :
        \A r1, r2 \in rows : r1.msisdn = r2.msisdn => r1 = r2 }

\* the cache after the loop of _warmup_cache over the rows: cache.set of
\* the hlr_response of each row, which the driver has parsed back
RECURSIVE WarmupLoad(_, _)
WarmupLoad(c, rows) ==
    IF rows = {} THEN c
    ELSE LET row == CHOOSE r \in rows : TRUE
         IN WarmupLoad(IF ttl = 0 THEN c
                       ELSE [c EXCEPT ![row.msisdn] =
                                 JsonDumps(JsonLoads(row.hlr_response))],
                       rows \ {row})

WarmupCache ==
    /\ AtStartup("warmup")
    /\ \E ok \in BOOLEAN :
         IF ~(app.db_enabled /\ app.cache_warmup_enabled)
         THEN app' = Advance(app) /\ UNCHANGED cache
         ELSE IF ok
         THEN app' = Done(app, "warmup")
              /\ \E rows \in RecentLookups : cache' = WarmupLoad(cache, rows)
         ELSE IF WarmupRaises(ok)
         THEN app' = Raised(app, "warmup") /\ UNCHANGED cache
         ELSE app' = Done([app EXCEPT !.warmup_failed = TRUE], "warmup")
              /\ UNCHANGED cache
    /\ AppOnly

HlrConnect ==
    /\ AtStartup("hlr")
    /\ \E ok \in BOOLEAN :
         app' = IF ok THEN Done(app, "hlr.connect") ELSE Raised(app, "hlr")
    /\ UNCHANGED cache
    /\ AppOnly

\* SMPPServer() and create_task(self.smpp_server.start())
StartServer ==
    /\ AtStartup("server")
    /\ app' = Advance([app EXCEPT !.smpp_server = TRUE,
                                  !.server_task = "created"])
    /\ UNCHANGED cache
    /\ AppOnly

\* the server task runs SMPPServer.start: asyncio.start_server listens, or
\* raises and the task ends with that exception
ServerTaskStart ==
    /\ app.server_task = "created"
    /\ \E ok \in BOOLEAN :
         app' = IF ok
                THEN [app EXCEPT !.server_task = "serving",
                                 !.trace = Append(@, "listener.start")]
                ELSE [app EXCEPT !.server_task = "failed"]
    /\ UNCHANGED cache
    /\ AppOnly

\* the listener calls _handle_client for a new connection
AcceptSession ==
    /\ app.server_task = "serving"
    /\ app.accepted < Cardinality(Sessions)
    /\ app' = [app EXCEPT !.accepted = @ + 1, !.trace = Append(@, "accept")]
    /\ UNCHANGED cache
    /\ AppOnly

\* SIGTERM or SIGINT: _handle_shutdown sets the event
ShutdownSignal ==
    /\ app.phase \in {"startup", "wait"}
    /\ ~app.shutdown_event
    /\ app' = [app EXCEPT !.shutdown_event = TRUE]
    /\ UNCHANGED cache
    /\ AppOnly

\* shutdown_event.wait() returns; the server task is cancelled and awaited:
\* a task that never ran never listens, a serving one closes its listener,
\* a failed one hands its exception to run
WaitReturns ==
    /\ app.phase = "wait"
    /\ app.shutdown_event
    /\ app' =
         CASE app.server_task = "created" ->
                 [app EXCEPT !.phase = "shutdown", !.step = 1,
                             !.server_task = "cancelled"]
           [] app.server_task = "serving" ->
                 [app EXCEPT !.phase = "shutdown", !.step = 1,
                             !.server_task = "closed",
                             !.trace = Append(@, "listener.stop")]
           [] OTHER ->
                 [app EXCEPT !.phase = "shutdown", !.step = 1,
                             !.failed = "server"]
    /\ UNCHANGED cache
    /\ AppOnly

StopServer ==
    /\ AtShutdown("server")
    /\ app' = Closed(app, IF app.smpp_server THEN <<"server.stop">> ELSE <<>>)
    /\ UNCHANGED cache
    /\ AppOnly

HlrClose ==
    /\ AtShutdown("hlr")
    /\ app' = Closed(app, <<"hlr.close">>)
    /\ UNCHANGED cache
    /\ AppOnly

DbClose ==
    /\ AtShutdown("db")
    /\ app' = Closed(app, IF app.db_enabled THEN <<"db.close">> ELSE <<>>)
    /\ UNCHANGED cache
    /\ AppOnly

CacheClose ==
    /\ AtShutdown("cache")
    /\ app' = Closed(app, <<"cache.close">>)
    /\ UNCHANGED cache
    /\ AppOnly

NextApp ==
    \/ StartMetrics
    \/ CacheConnect
    \/ DbConnect
    \/ WarmupCache
    \/ HlrConnect
    \/ StartServer
    \/ ServerTaskStart
    \/ AcceptSession
    \/ ShutdownSignal
    \/ WaitReturns
    \/ StopServer
    \/ HlrClose
    \/ DbClose
    \/ CacheClose

SpecApp == InitApp /\ [][NextApp]_vars


(***************************************************************************)
(* SMPPSession.send_deliver_sm called on its own with the counter anywhere *)
(* around the largest value a 32-bit header field holds.  The counter is   *)
(* an integer without a width; it is kept as two digits <<high, low>> to   *)
(* the base 2^16.                                                          *)
(***************************************************************************)
HalfWord == 2 ^ 16

\* sequence_number += 1
Increment(n) ==
    IF n[2] + 1 = HalfWord THEN <<n[1] + 1, 0>> ELSE <<n[1], n[2] + 1>>

\* struct.pack('>I', n) accepts 0 <= n <= 2^32 - 1 and raises otherwise
FitsUnsigned32(n) == n[1] < HalfWord

\* the counter after the call, whether a PDU was written and its sequence
SendDeliverSm(a) ==
    IF ~a.authenticated
    THEN [sequence_number |-> a.sequence_number, emitted |-> FALSE,
          sequence |-> <<0, 0>>]
    ELSE LET sequence == a.sequence_number IN
           IF FitsUnsigned32(sequence)
           THEN [sequence_number |-> Increment(sequence), emitted |-> TRUE,
                 sequence |-> sequence]
           ELSE \* struct.error, caught and logged by send_deliver_sm
                [sequence_number |-> Increment(sequence), emitted |-> FALSE,
                 sequence |-> <<0, 0>>]

CounterHighs == {0, 1, HalfWord - 2, HalfWord - 1, HalfWord, HalfWord + 1}
CounterLows == {0, 1, 2, HalfWord - 2, HalfWord - 1}

WrapInputs ==
    [sequence_number : CounterHighs \X CounterLows, authenticated : BOOLEAN]

InitWrap ==
    /\ InitGateway
    /\ arg \in WrapInputs
    /\ ret = NoRet
    /\ returned = FALSE

WrapCall ==
    /\ ~returned
    /\ ret' = SendDeliverSm(arg)
    /\ returned' = TRUE
    /\ UNCHANGED <<arg, gatewayVars>>

NextWrap == WrapCall

SpecWrap == InitWrap /\ [][NextWrap]_vars


(***************************************************************************)
(* Peers that bind, submit, unbind and bind again on the same connection.  *)
(* The detached store appends and the expiry of cache keys are left out.   *)
(***************************************************************************)
MaxRebindPdus == MaxPdus + 1

RebindPdus(n) ==
    { InPdu(SMPP_CMD_BIND_TRANSCEIVER, n, smpp_password, "", ""),
      InPdu(SMPP_CMD_UNBIND, n, "", "", "") }
    \cup { InPdu(SMPP_CMD_SUBMIT_SM, n, "", src, dst)
           : src \in SourceAddrs, dst \in MSISDNs }

PeerSendRebind(s) ==
    /\ peerOpen[s] /\ ~closed[s]
    /\ TotalSent < MaxRebindPdus
    /\ inbox[s] = <<>>
    /\ \E pdu \in RebindPdus(sent[s] + 1) :
          inbox' = [inbox EXCEPT ![s] = Append(@, pdu)]
    /\ sent' = [sent EXCEPT ![s] = @ + 1]
    /\ ev' = NoEv
    /\ UNCHANGED <<cacheVars, hlrVars, dbVars, peerOpen, sessVars, out, pc,
                   cur, dlrTasks>>
    /\ UNCHANGED <<callVars, appVars, metricVars>>

NextRebind ==
    \/ \E s \in Sessions : PeerSendRebind(s)
    \/ \E s \in Sessions : HandleBind(s)
    \/ \E s \in Sessions : HandleUnbind(s)
    \/ \E s \in Sessions : RejectSubmitUnbound(s)
    \/ \E s \in Sessions : SubmitStart(s)
    \/ \E s \in Sessions : Acquire(s)
    \/ \E s \in Sessions : Recheck(s)
    \/ \E s \in Sessions : HttpReturn(s)
    \/ \E t \in dlrTasks : DlrFire(t)

SpecRebind == Init /\ [][NextRebind]_vars

RebindMessageIds ==
    { GenerateMessageId(s, n) : s \in Sessions, n \in 1..MaxRebindPdus }


(***************************************************************************)
(* The gateway over a restart: the process ends at any moment and a new    *)
(* one starts, runs the warmup over the rows the store holds and serves    *)
(* again.  Redis and the store outlive the process, everything else does   *)
(* not.                                                                    *)
(***************************************************************************)
\* enough for a session to bind and submit in each run
MaxWarmPdus == Cardinality(Sessions)

PeerSendWarm(s) ==
    /\ peerOpen[s] /\ ~closed[s]
    /\ TotalSent < MaxWarmPdus
    /\ inbox[s] = <<>>
    /\ \E pdu \in BurstPdus(sent[s] + 1) :
          inbox' = [inbox EXCEPT ![s] = Append(@, pdu)]
    /\ sent' = [sent EXCEPT ![s] = @ + 1]
    /\ ev' = NoEv
    /\ UNCHANGED <<cacheVars, hlrVars, dbVars, peerOpen, sessVars, out, pc,
                   cur, dlrTasks>>
    /\ UNCHANGED <<callVars, appVars, metricVars>>

RestartWithWarmup ==
    /\ app.run = 1
    /\ app' = [app EXCEPT !.run = @ + 1]
    /\ \E ok \in BOOLEAN :
         IF ok
         THEN \E rows \in RecentLookups : cache' = WarmupLoad(cache, rows)
         ELSE cache' = cache
    /\ delivrd_total' = 0
    /\ permits' = SemaphoreCapacity
    /\ httpCount' = [m \in MSISDNs |-> 0]
    /\ saveTasks' = {}
    /\ inbox' = [s \in Sessions |-> <<>>]
    /\ sent' = [s \in Sessions |-> 0]
    /\ peerOpen' = [s \in Sessions |-> TRUE]
    /\ closed' = [s \in Sessions |-> FALSE]
    /\ authenticated' = [s \in Sessions |-> FALSE]
    /\ sequence_number' = [s \in Sessions |-> 1]
    /\ out' = [s \in Sessions |-> <<>>]
    /\ pc' = [s \in Sessions |-> "read"]
    /\ cur' = [s \in Sessions |-> NoCur]
    /\ dlrTasks' = {}
    /\ ev' = NoEv
    /\ UNCHANGED <<ttl, store, callVars>>

NextWarm ==
    \/ \E s \in Sessions : PeerSendWarm(s)
    \/ \E s \in Sessions : HandleBind(s)
    \/ \E s \in Sessions : RejectSubmitUnbound(s)
    \/ \E s \in Sessions : SubmitStart(s)
    \/ \E s \in Sessions : Acquire(s)
    \/ \E s \in Sessions : Recheck(s)
    \/ \E s \in Sessions : HttpReturn(s)
    \/ \E t \in saveTasks : SaveHlrLookup(t)
    \/ \E t \in dlrTasks : DlrFire(t)
    \/ \E m \in MSISDNs : Expire(m)
    \/ RestartWithWarmup

SpecWarm == Init /\ [][NextWarm]_vars

(***************************************************************************)
(* Properties.                                                             *)
(***************************************************************************)
Last(q) == q[Len(q)]

IsSubmitResp(p) == p.command_id = SMPP_CMD_SUBMIT_SM /\ p.resp

IsDeliverSm(p) == p.command_id = SMPP_CMD_DELIVER_SM /\ ~p.resp

\* the handler of a SubmitSM finished in the last step
Finished == ev.sess \in Sessions

\* DeliverSMs written on any session whose DLR text carries id
DeliverSmsFor(id) ==
    { <<s, i>> \in Sessions \X (1..(2 * MaxPdus)) :
        /\ i <= Len(out[s])
        /\ IsDeliverSm(out[s][i])
        /\ out[s][i].message_id = id }

TasksFor(id) == { t \in dlrTasks : t.message_id = id }

\* C1: when the lookup of a SubmitSM on a bound session returns a record
\* classified valid, the SUBMIT_SM_RESP written for it has status
\* ESME_RINVDSTADR and an empty message_id, no DLR task is created, and
\* the SubmitSM behind any ESME_RINVDSTADR response never has a DLR task or
\* a DeliverSM.
C1_ValidRejected ==
    /\ (Finished /\ ev.kind = "ok" /\ ev.record.classification = "valid") =>
          /\ out[ev.sess] # <<>>
          /\ Last(out[ev.sess]) = OutPdu(SMPP_CMD_SUBMIT_SM, TRUE,
                                         ESME_RINVDSTADR, ev.sequence, NoId)
          /\ TasksFor(ev.message_id) = {}
    /\ \A s \in Sessions : \A i \in 1..Len(out[s]) :
          (IsSubmitResp(out[s][i])
             /\ out[s][i].command_status = ESME_RINVDSTADR) =>
             LET id == GenerateMessageId(s, out[s][i].sequence)
             IN TasksFor(id) = {} /\ DeliverSmsFor(id) = {}

C1_Witness ==
    Finished /\ ev.kind = "ok" /\ ev.record.classification = "valid"

OkResponses ==
    { <<s, i>> \in Sessions \X (1..(2 * MaxPdus)) :
        /\ i <= Len(out[s])
        /\ IsSubmitResp(out[s][i])
        /\ out[s][i].command_status = ESME_ROK }

\* C2: the number of DLR tasks created equals the number of SUBMIT_SM_RESP
\* written with ESME_ROK; every ESME_ROK response has exactly one task,
\* carrying its message_id, and a SubmitSM answered with a non-zero status
\* has none.
C2_OneDlrPerAccepted ==
    /\ Cardinality(dlrTasks) = Cardinality(OkResponses)
    /\ \A s \in Sessions : \A i \in 1..Len(out[s]) :
          IsSubmitResp(out[s][i]) =>
             LET id == GenerateMessageId(s, out[s][i].sequence)
             IN IF out[s][i].command_status = ESME_ROK
                THEN /\ out[s][i].message_id = id
                     /\ Cardinality(TasksFor(id)) = 1
                ELSE TasksFor(id) = {}

C2_Witness ==
    /\ Cardinality(OkResponses) = 2
    /\ Cardinality(dlrTasks) = 2

Accepted(id) ==
    \E i \in 1..Len(out[id[1]]) :
       /\ IsSubmitResp(out[id[1]][i])
       /\ out[id[1]][i].command_status = ESME_ROK
       /\ out[id[1]][i].message_id = id

\* C3: at most one DeliverSM is ever written for a message_id, only on the
\* session that accepted the SubmitSM and with esm_class 0x04; the DLR task
\* of an accepted SubmitSM eventually fires, and when it fires on a session
\* that is authenticated and open it writes that DeliverSM.
C3_DlrDelivered ==
    /\ [](\A id \in MessageIds :
            /\ Cardinality(DeliverSmsFor(id)) <= 1
            /\ \A d \in DeliverSmsFor(id) :
                  /\ d[1] = id[1]
                  /\ out[d[1]][d[2]].esm_class = ESM_CLASS_DLR
                  /\ Accepted(id))
    /\ [][\A t \in dlrTasks :
            (/\ t.state = "pending"
             /\ t \notin dlrTasks'
             /\ authenticated[t.sess]
             /\ ~closed[t.sess]) =>
               /\ Len(out'[t.sess]) = Len(out[t.sess]) + 1
               /\ IsDeliverSm(Last(out'[t.sess]))
               /\ Last(out'[t.sess]).message_id = t.message_id
               /\ t.sess = t.message_id[1]]_vars
    /\ []<>(\A id \in MessageIds :
              Accepted(id) => \E t \in TasksFor(id) : t.state # "pending")

C3_Witness ==
    \E s \in Sessions, o \in Sessions :
       /\ s # o
       /\ authenticated[o]
       /\ DeliverSmsFor(GenerateMessageId(s, 2)) # {}
       /\ \A i \in 1..Len(out[o]) : ~IsDeliverSm(out[o][i])

\* C4: on every session a DeliverSM is preceded in the output stream by the
\* SUBMIT_SM_RESP that returned its message_id.
C4_DlrAfterResponse ==
    \A s \in Sessions : \A i \in 1..Len(out[s]) :
       IsDeliverSm(out[s][i]) =>
          \E j \in 1..(i - 1) :
             /\ IsSubmitResp(out[s][j])
             /\ out[s][j].command_status = ESME_ROK
             /\ out[s][j].message_id = out[s][i].message_id

C4_Witness ==
    \E s \in Sessions :
       /\ Len(out[s]) = 3
       /\ IsSubmitResp(out[s][2])
       /\ IsDeliverSm(out[s][3])

\* C5: a step that writes a DeliverSM on a session is taken only while the
\* session is authenticated, and a DLR task that fires on a session that
\* is not authenticated writes nothing.
C5_NoDlrWhenUnbound ==
    [][/\ \A s \in Sessions :
             (/\ Len(out'[s]) > Len(out[s])
              /\ IsDeliverSm(Last(out'[s]))) => authenticated[s]
       /\ (\E t \in dlrTasks : /\ t.state = "pending"
                               /\ t \notin dlrTasks'
                               /\ ~authenticated[t.sess]) => out' = out
      ]_vars

C5_Witness ==
    \E t \in dlrTasks :
       /\ t.state = "dropped"
       /\ ~authenticated[t.sess]
       /\ \A i \in 1..Len(out[t.sess]) : ~IsDeliverSm(out[t.sess][i])

\* C6: with caching enabled, for every MSISDN at most one HLR HTTP request
\* is in flight at a time among the callers of lookup whose first cache
\* read succeeded and found the cache cold.
C6_SingleFlight ==
    \A m \in MSISDNs :
       Cardinality({ s \in Sessions : /\ pc[s] = "http"
                                      /\ cur[s].destination_addr = m
                                      /\ cur[s].readable
                                      /\ cur[s].held = NoData }) <= 1

\* C7: while the HLR lookup of a SubmitSM of a session has not returned, an
\* ENQUIRE_LINK that the peer has sent on that session can be answered.
C7_EnquireLinkNotBlocked ==
    \A s \in Sessions :
       (/\ ~closed[s]
        /\ pc[s] = "http"
        /\ inbox[s] # <<>>
        /\ Head(inbox[s]).command_id = SMPP_CMD_ENQUIRE_LINK) =>
          ENABLED HandleEnquireLink(s)

\* rows the lookup of SubmitSM <<s, sequence>> has appended or will append
RowsBy(s, sequence) ==
    { row \in saveTasks \cup store : row.by = <<s, sequence>> }

\* C8 as stated: with caching enabled, a lookup that starts while the cache
\* holds a record for the MSISDN returns that record, issues no HTTP
\* request and appends no row.
C8_CacheHit_Original ==
    (Finished /\ ttl # 0 /\ ev.held # NoData) =>
       /\ ev.kind = "ok"
       /\ ev.record = JsonLoads(ev.held)
       /\ ~ev.http
       /\ RowsBy(ev.sess, ev.sequence) = {}

\* C8: with caching enabled, a lookup that starts while the cache holds a
\* record for the MSISDN and whose cache read succeeds returns that record
\* from the first cache read, issues no HTTP request and appends no row; the
\* record is the one an earlier lookup obtained from the HLR and returned.
C8_CacheHit ==
    (Finished /\ ev.held # NoData /\ ev.readable) =>
       /\ ev.via = "hit"
       /\ ev.kind = "ok"
       /\ ev.record = JsonLoads(ev.held)
       /\ ~ev.http
       /\ RowsBy(ev.sess, ev.sequence) = {}
       /\ \E row \in saveTasks \cup store :
             /\ row.msisdn = ev.destination_addr
             /\ row.hlr_response = JsonDumps(ev.record)
             /\ row.by # <<ev.sess, ev.sequence>>

C8_Witness ==
    /\ Finished
    /\ ev.via = "hit"
    /\ ev.readable
    /\ ev.held # NoData
    /\ httpCount[ev.destination_addr] = 1

FailureKinds == {"TimeoutException", "HTTPError", "Exception"}

\* C9: when the lookup of a SubmitSM raises, the SUBMIT_SM_RESP written for
\* it has status ESME_RSYSERR and no message_id, no DLR task is created,
\* the session is still open and authenticated and its reader goes on; the
\* SubmitSM behind any ESME_RSYSERR response never has a DLR task or a
\* DeliverSM.
C9_LookupFailure ==
    /\ (Finished /\ ev.kind \in FailureKinds) =>
          /\ out[ev.sess] # <<>>
          /\ Last(out[ev.sess]) = OutPdu(SMPP_CMD_SUBMIT_SM, TRUE,
                                         ESME_RSYSERR, ev.sequence, NoId)
          /\ TasksFor(ev.message_id) = {}
          /\ ~closed[ev.sess]
          /\ authenticated[ev.sess]
          /\ pc[ev.sess] = "read"
    /\ \A s \in Sessions : \A i \in 1..Len(out[s]) :
          (IsSubmitResp(out[s][i])
             /\ out[s][i].command_status = ESME_RSYSERR) =>
             LET id == GenerateMessageId(s, out[s][i].sequence)
             IN /\ out[s][i].message_id = NoId
                /\ TasksFor(id) = {}
                /\ DeliverSmsFor(id) = {}

C9_Witness ==
    /\ Finished
    /\ ev.kind = "TimeoutException"
    /\ ev.command_status = ESME_RSYSERR
    /\ authenticated[ev.sess]

\* C10: the step in which a lookup fails changes neither the cache nor the
\* rows appended or about to be appended, and a record served from the
\* cache is always one that a successful HLR request returned.
C10_FailedLookupLeavesNoTrace ==
    /\ [][\A s \in Sessions :
            (pc[s] = "http" /\ ev'.sess = s /\ ev'.kind \in FailureKinds) =>
               /\ cache' = cache
               /\ saveTasks' = saveTasks
               /\ store' = store]_vars
    /\ []((Finished /\ ev.via \in {"hit", "recheck"}) =>
            \E row \in saveTasks \cup store :
               /\ row.msisdn = ev.destination_addr
               /\ row.hlr_response = JsonDumps(ev.record))

\* a lookup succeeds at the HLR on a session whose previous lookup failed
C10_Witness ==
    /\ Finished
    /\ ev.kind = "ok"
    /\ ev.via = "http"
    /\ ev.held = NoData
    /\ \E i \in 1..Len(out[ev.sess]) :
          /\ IsSubmitResp(out[ev.sess][i])
          /\ out[ev.sess][i].command_status = ESME_RSYSERR
          /\ out[ev.sess][i].sequence < ev.sequence

C12_NotPresentInvalid ==
    ret # NoRet => (arg.present = "no" => ret = "invalid")

IsBindResp(p) == p.command_id = SMPP_CMD_BIND_TRANSCEIVER /\ p.resp

\* C13: a bind response with ESME_RINVPASWD is the last response written on
\* its session, and the session is closed.
C13_BindFailureCloses ==
    \A s \in Sessions : \A i \in 1..Len(out[s]) :
       (IsBindResp(out[s][i])
          /\ out[s][i].command_status = SMPP_ESME_RINVPASWD) =>
          /\ closed[s]
          /\ \A j \in (i + 1)..Len(out[s]) : ~out[s][j].resp

\* the reader of s takes a SUBMIT_SM while s is not authenticated
ReadsSubmitUnbound(s) ==
    /\ CanRead(s, SMPP_CMD_SUBMIT_SM)
    /\ ~authenticated[s]
    /\ inbox'[s] # inbox[s]

\* C14: the step that reads a SUBMIT_SM on a session that is not
\* authenticated writes SUBMIT_SM_RESP with ESME_RINVBNDSTS and no
\* message_id, starts no lookup, issues no HLR request, creates no DLR task
\* and leaves the session open with its reader ready for the next PDU.
C14_SubmitUnbound ==
    [][\A s \in Sessions :
         ReadsSubmitUnbound(s) =>
            /\ out'[s] = Append(out[s],
                                OutPdu(SMPP_CMD_SUBMIT_SM, TRUE,
                                       SMPP_ESME_RINVBNDSTS,
                                       Head(inbox[s]).sequence, NoId))
            /\ pc'[s] = "read"
            /\ httpCount' = httpCount
            /\ permits' = permits
            /\ cache' = cache
            /\ dlrTasks' = dlrTasks
            /\ ~closed'[s]
            /\ ~authenticated'[s]]_vars

\* a successful bind follows a SUBMIT_SM rejected with ESME_RINVBNDSTS
C14_Witness ==
    \E s \in Sessions :
       /\ authenticated[s]
       /\ Len(out[s]) = 2
       /\ IsSubmitResp(out[s][1])
       /\ out[s][1].command_status = SMPP_ESME_RINVBNDSTS
       /\ IsBindResp(out[s][2])
       /\ out[s][2].command_status = ESME_ROK

\* C15: an ENQUIRE_LINK_RESP or UNBIND_RESP with status 0 is written on a
\* session only after a successful bind response on that session.
C15_OpenHonoursOnlyBind ==
    \A s \in Sessions : \A i \in 1..Len(out[s]) :
       (/\ out[s][i].resp
        /\ out[s][i].command_id \in {SMPP_CMD_ENQUIRE_LINK, SMPP_CMD_UNBIND}
        /\ out[s][i].command_status = ESME_ROK) =>
          \E j \in 1..(i - 1) :
             IsBindResp(out[s][j]) /\ out[s][j].command_status = ESME_ROK

\* C16: an UNBIND_RESP is the last response written on its session.
C16_UnbindTerminal ==
    \A s \in Sessions : \A i \in 1..Len(out[s]) :
       (out[s][i].resp /\ out[s][i].command_id = SMPP_CMD_UNBIND) =>
          \A j \in (i + 1)..Len(out[s]) : ~out[s][j].resp

\* C17: no DLR task attempts to write its DeliverSM on a session whose
\* reader has exited and whose connection is closed.
C17_DlrCancelledOnClose ==
    \A t \in dlrTasks : t.state # "late"

\* C18: the message_id of every SUBMIT_SM_RESP with ESME_ROK has exactly
\* 16 characters.
C18_MessageIdLength16 ==
    \A s \in Sessions : \A i \in 1..Len(out[s]) :
       (IsSubmitResp(out[s][i]) /\ out[s][i].command_status = ESME_ROK) =>
          MessageIdLength(out[s][i].message_id) = 16

\* C19: every SUBMIT_SM_RESP with ESME_ROK carries a message_id, no two of
\* them (on any sessions) carry the same one, and the id of every DeliverSM
\* is the message_id of exactly one of them, written on the same session.
C19_DistinctMessageIds ==
    /\ \A a \in OkResponses : out[a[1]][a[2]].message_id # NoId
    /\ \A a \in OkResponses : \A b \in OkResponses :
          out[a[1]][a[2]].message_id = out[b[1]][b[2]].message_id => a = b
    /\ \A s \in Sessions : \A i \in 1..Len(out[s]) :
          IsDeliverSm(out[s][i]) =>
             /\ Cardinality({ a \in OkResponses :
                    out[a[1]][a[2]].message_id = out[s][i].message_id }) = 1
             /\ \A a \in OkResponses :
                   out[a[1]][a[2]].message_id = out[s][i].message_id =>
                      a[1] = s
    /\ \A t \in dlrTasks :
          Cardinality({ a \in OkResponses :
             out[a[1]][a[2]].message_id = t.message_id }) = 1

C19_Witness ==
    /\ Cardinality(OkResponses) = 2
    /\ \E s \in Sessions : \E i \in 1..Len(out[s]) : IsDeliverSm(out[s][i])

\* the status a SubmitSM gets from the answer of the HLR alone
StatusFromHlr(kind, record) ==
    IF kind \in FailureKinds THEN ESME_RSYSERR
    ELSE IF record.classification = "valid" THEN ESME_RINVDSTADR
    ELSE ESME_ROK

\* C20: the status of every SUBMIT_SM_RESP is the one the record or the
\* failure of the HLR request determines; ESME_RSYSERR is written only when
\* an HLR request was issued and failed; and a lookup whose cache read
\* fails goes on as on a miss.
C20_CacheOutageHarmless ==
    Finished =>
       /\ ev.kind \in FailureKinds \cup {"ok"}
       /\ ev.command_status = StatusFromHlr(ev.kind, ev.record)
       /\ ev.command_status = ESME_RSYSERR => ev.http
       /\ (ttl # 0 /\ ~ev.readable) => ev.via \in {"recheck", "http"}

\* the cache holds the record, its reads fail, the HLR is asked again and
\* the SubmitSM is accepted
C20_Witness ==
    /\ Finished
    /\ ttl # 0
    /\ ~ev.readable
    /\ ev.held # NoData
    /\ ev.via = "http"
    /\ ev.command_status = ESME_ROK

\* records a caller may hand to HLRCache.set
CacheableRecords ==
    { SyncHlrRequest(reply).record :
        reply \in { r \in HlrReplies : r.kind \in {"record", "empty"} } }

\* C21: with a TTL of 0 the cache never holds anything, get returns absent
\* and set stores nothing for every MSISDN and record even when Redis
\* works, and every lookup that finishes has issued its own HLR request.
C21_TtlZeroDisablesCache ==
    ttl = 0 =>
       /\ \A m \in MSISDNs :
             /\ cache[m] = NoData
             /\ CacheGet(m, TRUE) = NoRecord
             /\ \A r \in CacheableRecords : CacheSet(m, r, TRUE) = cache
       /\ Finished => (ev.http /\ ev.via = "http" /\ ev.held = NoData)

\* the same MSISDN is looked up a second time and the HLR is asked again
C21_Witness ==
    /\ ttl = 0
    /\ Finished
    /\ ev.kind = "ok"
    /\ httpCount[ev.destination_addr] = 2

\* C22: a header whose command_length is below 16 or above 64 KiB is
\* rejected: the PDU is not dispatched and no body of that length is
\* consumed.
C22_BadLengthRejected ==
    (returned /\ (arg.command_length < HeaderLength
                    \/ arg.command_length > 64 * 1024)) =>
       (ret.outcome # "dispatch" /\ ret.consumed = 0)

\* C23: a SUBMIT_SM body that does not follow the field layout (cut short,
\* or with a NUL terminator missing) is never parsed into fields for the
\* submit pipeline; the parse fails and the session closes.
C23_MalformedNotParsed ==
    (returned /\ ~FollowsLayout(arg)) => ret.outcome # "parsed"

ReadsUnsupported(s) ==
    /\ \E c \in UnsupportedCommandIds : CanRead(s, c)
    /\ inbox'[s] = Tail(inbox[s])

\* C24: a PDU whose command_id the server does not support is consumed
\* silently: nothing is written to the session, its authenticated flag and
\* its DeliverSM sequence counter stay as they were, it is not closed and
\* the reader goes on to the next PDU.
C24_UnsupportedIgnored ==
    [][\A s \in Sessions :
          ReadsUnsupported(s) =>
             /\ out'[s] = out[s]
             /\ authenticated'[s] = authenticated[s]
             /\ sequence_number'[s] = sequence_number[s]
             /\ ~closed'[s]
             /\ pc'[s] = "read"]_vars

\* a bound session gets no answer to its second PDU and its third PDU, an
\* enquire_link, is answered
C24_Witness ==
    \E s \in Sessions :
       /\ sent[s] = 3
       /\ inbox[s] = <<>>
       /\ authenticated[s] /\ ~closed[s]
       /\ Len(out[s]) = 2
       /\ IsBindResp(out[s][1])
       /\ out[s][2].command_id = SMPP_CMD_ENQUIRE_LINK
       /\ out[s][2].sequence = 3

\* the request the reader of s is handling: the PDU it has just read, or the
\* SubmitSM whose lookup it is waiting for
RequestOf(s) ==
    IF pc[s] = "read"
    THEN [command_id |-> Head(inbox[s]).command_id,
          sequence |-> Head(inbox[s]).sequence]
    ELSE [command_id |-> SMPP_CMD_SUBMIT_SM, sequence |-> cur[s].sequence]

WritesResponse(s) ==
    /\ Len(out'[s]) = Len(out[s]) + 1
    /\ Last(out'[s]).resp

\* C25: every response PDU carries the sequence number of the request it
\* answers and that request's command id with the response bit set.
C25_ResponseEchoesRequest ==
    [][\A s \in Sessions :
          WritesResponse(s) =>
             /\ Last(out'[s]).sequence = RequestOf(s).sequence
             /\ Last(out'[s]).command_id = RequestOf(s).command_id
             /\ (pc[s] = "read" => inbox'[s] = Tail(inbox[s]))]_vars

\* a bind answered with sequence 1 and then a SubmitSM with sequence 2
C25_Witness ==
    /\ Finished
    /\ ev.sequence = 2
    /\ Len(out[ev.sess]) = 2
    /\ IsBindResp(out[ev.sess][1]) /\ out[ev.sess][1].sequence = 1
    /\ IsSubmitResp(out[ev.sess][2]) /\ out[ev.sess][2].sequence = 2

\* the positions of the DeliverSMs among the first n PDUs written to s
DeliverSmsUpTo(s, n) == { j \in 1..n : IsDeliverSm(out[s][j]) }

\* the DLR tasks of s that took a sequence number and found the writer closed
LateTasks(s) == { t \in dlrTasks : t.sess = s /\ t.state = "late" }

\* C26: the k-th DeliverSM written on a session carries sequence number k,
\* whatever sequence numbers the peer uses and whatever happens on other
\* sessions; the counter starts at 1 and a DLR dropped because the session
\* was not bound takes no number.
C26_DeliverSmSequence ==
    \A s \in Sessions :
       /\ \A i \in 1..Len(out[s]) :
             IsDeliverSm(out[s][i]) =>
                out[s][i].sequence = Cardinality(DeliverSmsUpTo(s, i))
       /\ sequence_number[s] =
             1 + Cardinality(DeliverSmsUpTo(s, Len(out[s])))
               + Cardinality(LateTasks(s))

\* two DeliverSMs on one session, for the SubmitSMs with sequence 2 and 3
C26_Witness ==
    \E s \in Sessions :
       /\ Len(out[s]) = 5
       /\ DeliverSmsUpTo(s, 5) = {4, 5}
       /\ out[s][4].sequence = 1 /\ out[s][5].sequence = 2
       /\ out[s][2].sequence = 2 /\ out[s][3].sequence = 3

\* the reader of s is inside the handling of a PDU and finishes it
ReaderActs(s) ==
    \/ pc[s] = "read" /\ inbox[s] # <<>> /\ inbox'[s] = Tail(inbox[s])
    \/ pc[s] # "read" /\ pc'[s] = "read"

\* a DLR task of s ends by writing the DeliverSM p
DlrTaskWrites(s, p) ==
    \E t \in dlrTasks :
       /\ t.sess = s /\ t.state = "pending" /\ t \notin dlrTasks'
       /\ p.message_id = t.message_id

\* C27: writes on a session are serialized: a step that writes appends one
\* whole PDU, header and body together, after everything written before, to
\* one session only, and the writer is that session's reader or one of its
\* own DLR tasks.
C27_WritesSerialized ==
    [][\A s \in Sessions :
          out'[s] # out[s] =>
             /\ Len(out'[s]) = Len(out[s]) + 1
             /\ SubSeq(out'[s], 1, Len(out[s])) = out[s]
             /\ \A r \in Sessions \ {s} : out'[r] = out[r]
             /\ IF IsDeliverSm(Last(out'[s]))
                THEN DlrTaskWrites(s, Last(out'[s]))
                ELSE ReaderActs(s)]_vars

\* one session has been written to by its reader and by a DLR task of its
\* own while the other has been written to by its own reader
C27_Witness ==
    \E s, r \in Sessions :
       /\ s # r
       /\ Len(out[s]) = 3 /\ IsDeliverSm(out[s][3])
       /\ Len(out[r]) = 1 /\ out[r][1].resp

\* the sessions whose lookup holds a permit
PermitHolders == { s \in Sessions : pc[s] \in {"recheck", "http"} }

\* the sessions whose HLR HTTP request is in flight
InFlight == { s \in Sessions : pc[s] = "http" }

\* C28: the HLR HTTP requests in flight never exceed the capacity of the
\* gate, and a lookup has its request in flight only while it holds a
\* permit: the permits taken are exactly those of the holders.
C28_GateBoundsInFlight ==
    /\ permits >= 0
    /\ HeldElsewhere + Cardinality(PermitHolders) + permits = SemaphoreCapacity
    /\ HeldElsewhere + Cardinality(InFlight) <= SemaphoreCapacity
    /\ InFlight \subseteq PermitHolders

\* the gate is full: one request in flight on the last permit, another
\* lookup that missed the cache waits for a permit
C28_Witness ==
    \E s, r \in Sessions :
       /\ permits = 0
       /\ pc[s] = "http"
       /\ pc[r] = "acquire"

\* C29: in the DLR text, submit date is the time at which the SubmitSM was
\* accepted and done date the time at which the DLR is emitted, also when
\* the DLR is delayed.
C29_SubmitDateIsAcceptance ==
    returned =>
       /\ ret.short_message.submit_date = FormatSmppDate(arg.accepted_at)
       /\ ret.short_message.done_date =
             FormatSmppDate(arg.accepted_at + arg.delay)

\* C30: the DeliverSM of a DLR has the destination of the SubmitSM as its
\* source_addr and the source of the SubmitSM as its destination_addr, and
\* its text says stat DELIVRD and err 000 whatever the HLR record contains.
C30_DlrAddressesAndStatus ==
    returned =>
       /\ ret.pdu.source_addr = arg.destination_addr
       /\ ret.pdu.destination_addr = arg.source_addr
       /\ ret.pdu.esm_class = ESM_CLASS_DLR
       /\ ret.short_message.id = arg.message_id
       /\ ret.short_message.stat = "DELIVRD"
       /\ ret.short_message.err = "000"

\* the DLR for a number the HLR reports as an unknown subscriber
C30_Witness ==
    /\ returned
    /\ arg.hlr_result.error = 1 /\ arg.hlr_result.status = 0
    /\ arg.source_addr # arg.destination_addr
    /\ ret.pdu.source_addr = arg.destination_addr
    /\ ret.short_message.err = "000"

\* the positions of an event in the trace of the application
Positions(event) == { i \in 1..Len(app.trace) : app.trace[i] = event }

Happened(event) == Positions(event) # {}

\* every b comes after an a
Before(a, b) ==
    \A j \in Positions(b) : \E i \in Positions(a) : i < j

\* C31: startup connects the cache and the store and runs the warmup, then
\* initialises the HLR client, then starts the listener, and no session is
\* accepted before all of that is done; shutdown stops the listener, then
\* closes the HLR client, then the store, then the cache.
C31_StartupShutdownOrder ==
    /\ Before("cache.connect", "hlr.connect")
    /\ app.db_enabled => (Happened("hlr.connect") => Happened("db.connect"))
    /\ Before("cache.connect", "db.connect")
    /\ Before("db.connect", "warmup")
    /\ (app.db_enabled /\ app.cache_warmup_enabled) =>
          Before("warmup", "hlr.connect")
    /\ Before("hlr.connect", "listener.start")
    /\ Before("listener.start", "accept")
    /\ Before("listener.stop", "server.stop") \/ ~Happened("listener.start")
    /\ \A j \in Positions("listener.stop") :
          \A i \in Positions("accept") : i < j
    /\ \A j \in Positions("hlr.close") :
          /\ app.server_task \notin {"created", "serving"}
          /\ app.smpp_server => Happened("server.stop")
          /\ \A i \in Positions("server.stop") \cup Positions("listener.stop")
                : i < j
    /\ Before("hlr.close", "db.close")
    /\ Before("hlr.close", "cache.close")
    /\ \A j \in Positions("cache.close") :
          /\ app.db_enabled => Happened("db.close")
          /\ \A i \in Positions("db.close") : i < j

\* a full run: everything enabled, a session accepted, everything closed
C31_Witness ==
    /\ app.phase = "exit"
    /\ app.db_enabled /\ app.cache_warmup_enabled
    /\ app.trace = <<"cache.connect", "db.connect", "warmup", "hlr.connect",
                     "listener.start", "accept", "listener.stop",
                     "server.stop", "hlr.close", "db.close", "cache.close">>

\* the critical components have all initialised
CriticalUp ==
    /\ Happened("cache.connect")
    /\ app.db_enabled => Happened("db.connect")
    /\ Happened("hlr.connect")

\* C32: once startup is over, the listener has been started if and only if
\* the cache, the store when enabled and the HLR client initialised
\* successfully; startup is never aborted by a failure of the warmup.
C32_ListenerIffCriticalUp ==
    app.phase # "startup" =>
       /\ app.smpp_server <=> CriticalUp
       /\ app.failed # "warmup"
       /\ app.failed \in {"cache", "db", "hlr"} => ~app.smpp_server

\* the warmup failed and the listener is serving
C32_Witness ==
    /\ app.warmup_failed
    /\ app.server_task = "serving"
    /\ CriticalUp

\* C33: the DeliverSM sequence counter wraps at 2^32: whatever value the
\* counter has reached, a DeliverSM on a bound session is still emitted and
\* its sequence number lies in the unsigned 32-bit range.
C33_CounterWraps ==
    (returned /\ arg.authenticated) =>
       (ret.emitted /\ FitsUnsigned32(ret.sequence))

\* C34: a record that lacks the error field or lacks the status field is
\* never classified valid.
C34_AbsentFieldsNeverValid ==
    (returned /\ (arg.error = AbsentInt \/ arg.status = AbsentInt)) =>
       ret # "valid"

\* the reader of s handles a bind request whose credentials are wrong
ReadsFailedBind(s) ==
    /\ CanRead(s, SMPP_CMD_BIND_TRANSCEIVER)
    /\ ~(Head(inbox[s]).system_id = smpp_system_id
           /\ Head(inbox[s]).password = smpp_password)
    /\ inbox'[s] = Tail(inbox[s])

\* C35: after a bind request with wrong credentials the session is not
\* authenticated, also when the session was bound before it.
C35_FailedBindUnauthenticates ==
    [][\A s \in Sessions : ReadsFailedBind(s) => ~authenticated'[s]]_vars

\* the reader of s, bound, finishes the handling of a SubmitSM
SubmitEnds(s) ==
    \/ pc[s] # "read" /\ pc'[s] = "read"
    \/ /\ CanRead(s, SMPP_CMD_SUBMIT_SM) /\ authenticated[s]
       /\ inbox'[s] = Tail(inbox[s])
       /\ pc'[s] = "read"

\* the reader of s moves on inside the handling of a SubmitSM
SubmitContinues(s) == pc'[s] # pc[s] /\ pc'[s] # "read"

\* the positions of the SubmitSM responses with sequence q written to s
SubmitRespsFor(s, q) ==
    { i \in 1..Len(out[s]) : IsSubmitResp(out[s][i]) /\ out[s][i].sequence = q }

\* C36: a SubmitSM handled on a bound session is answered by exactly one
\* SUBMIT_SM_RESP with its sequence number on every branch of the pipeline:
\* the handling ends by writing that response, writes nothing before it,
\* leaves the session open, and no response with that sequence number was
\* written earlier.
C36_ExactlyOneSubmitResp ==
    [][\A s \in Sessions :
          /\ SubmitEnds(s) =>
                /\ Len(out'[s]) = Len(out[s]) + 1
                /\ SubSeq(out'[s], 1, Len(out[s])) = out[s]
                /\ IsSubmitResp(Last(out'[s]))
                /\ Last(out'[s]).sequence = RequestOf(s).sequence
                /\ SubmitRespsFor(s, RequestOf(s).sequence) = {}
                /\ ~closed'[s]
          /\ SubmitContinues(s) => out'[s] = out[s]]_vars

\* one session has had a SubmitSM rejected after a failed lookup and then a
\* SubmitSM accepted, each answered once
C36_Witness ==
    \E s \in Sessions :
       /\ Len(out[s]) = 3
       /\ pc[s] = "read"
       /\ IsSubmitResp(out[s][2]) /\ out[s][2].sequence = 2
       /\ out[s][2].command_status = ESME_RSYSERR
       /\ IsSubmitResp(out[s][3]) /\ out[s][3].sequence = 3
       /\ out[s][3].command_status = ESME_ROK

\* the response to an UNBIND: the bind under way ended when it was written
IsUnbindResp(p) == p.command_id = SMPP_CMD_UNBIND /\ p.resp

\* the k-th PDU written on s is the DLR of a SubmitSM that was accepted
\* before an UNBIND was answered, and comes after that answer
DlrAfterUnbind(s, k) ==
    \E j, i \in 1..Len(out[s]) :
       /\ j < i /\ i < k
       /\ IsSubmitResp(out[s][j])
       /\ out[s][j].command_status = ESME_ROK
       /\ out[s][j].message_id \in RebindMessageIds
       /\ IsUnbindResp(out[s][i])
       /\ IsDeliverSm(out[s][k])
       /\ out[s][k].message_id = out[s][j].message_id

\* C37: a DLR whose bind was ended by UNBIND while it was waiting is never
\* emitted afterwards, also when the peer binds again on the connection.
C37_NoDlrAfterUnbind ==
    \A s \in Sessions : \A k \in 1..Len(out[s]) : ~DlrAfterUnbind(s, k)

\* the lookups between the acquire and the release of their permit
BetweenAcquireAndReturn == { s \in Sessions : pc[s] \in {"recheck", "http"} }

\* C38: the gate never leaks permits: the permits taken are exactly those of
\* the lookups between acquire and return, whatever way the earlier lookups
\* ended, so that with no lookup under way the full capacity is free.
C38_NoPermitLeak ==
    /\ permits + Cardinality(BetweenAcquireAndReturn) = SemaphoreCapacity
    /\ BetweenAcquireAndReturn = {} => permits = SemaphoreCapacity

\* two lookups in a row have failed after acquiring a permit, one of them by
\* a timeout, and every permit is free
C38_Witness ==
    /\ Finished
    /\ ev.sequence = 3 /\ ev.http /\ ev.kind = "TimeoutException"
    /\ out[ev.sess][2].command_status = ESME_RSYSERR
    /\ httpCount[ev.destination_addr] = 2
    /\ BetweenAcquireAndReturn = {}
    /\ permits = SemaphoreCapacity

\* C39: every record the cache holds carries a classification field equal
\* to the classification of the record, after lookups that succeeded or
\* failed and after a warmup that loaded rows appended by lookups; a
\* SubmitSM answered from the cache is therefore decided as the original
\* reply of the HLR was.
C39_CachedClassification ==
    /\ \A m \in MSISDNs :
          cache[m] # NoData =>
             JsonLoads(cache[m]).classification
                = ClassifyResult(JsonLoads(cache[m]))
    /\ (Finished /\ ev.via \in {"hit", "recheck"}) =>
          /\ ev.record.classification = ClassifyResult(ev.record)
          /\ ev.command_status =
                IF ClassifyResult(ev.record) = "valid"
                THEN ESME_RINVDSTADR ELSE ESME_ROK

\* after the restart a SubmitSM is answered from a record that only the
\* warmup can have put into the cache
C39_Witness ==
    /\ app.run = 2
    /\ Finished
    /\ ev.via = "hit"
    /\ httpCount[ev.destination_addr] = 0
    /\ ev.record.classification = "invalid"

\* the DeliverSMs written so far on each session
DeliverSmsWritten ==
    [s \in Sessions |-> Cardinality(DeliverSmsUpTo(s, Len(out[s])))]

\* C40: delivrd_total counts only the DLRs that were written: it never
\* exceeds the number of DeliverSMs written on all the sessions, so a DLR
\* that is dropped does not increment it.
C40_DelivrdCountsWritten ==
    delivrd_total <= SumOver(DeliverSmsWritten, Sessions)

====
